---- MODULE Spec2Model ----
(***************************************************************************)
(* Behaviour-tree engine of ofxAI (src/src/ofxBehaviourTree.{h,cpp}).       *)
(*                                                                         *)
(* Strings that the code takes apart (parameters, fact names, fact values)  *)
(* are sequences of one-character strings; node kind names, which the code  *)
(* only compares, are TLA+ strings.  A host callable (leaf) is a record     *)
(* with an identity and the cyclic script of outcomes it returns.           *)
(***************************************************************************)
EXTENDS Integers, Sequences, FiniteSets, TLC

VARIABLES
    m_root,        \* Tree::m_root, the compiled runtime node (Null when absent)
    m_dict,        \* DictBlackboard::m_dict, fact name -> fact value
    m_scopeStack,  \* Tree::m_scopeStack, sequence of frames, top is the last
    pos,           \* per host callable: how many times it was invoked (cyclic)
    result,        \* value returned by the last Tree::tick or loadTree
                   \* ("None" before, and after an operation of the host)
    log,           \* ids of the host callables invoked by the last Tree::tick
    steps,         \* number of loadTree and tick calls so far
    op,            \* name of the last operation performed
    built,         \* the builder overload that made the loaded descriptor
    m_current,     \* DecisionNode::m_current of the root when that is a
                   \* Decision node: 0 for nullptr, the index of the strategy
                   \* pointed to, or Wild; 0 for every other root
    m_program,     \* BehaviorTreeVM::m_program, the BehaviorTreeVMProgram
    m_threads,     \* BehaviorTreeVM::m_threads
    blackboard,    \* BehaviorTreeVM::blackboard, its m_board
    stepped,       \* index of the thread the host stepped or reset last
    qualifiers,    \* Selector::qualifiers, the (qualifier, action) pairs
    defaultAction  \* Selector::defaultAction

vmVars == <<m_program, m_threads, blackboard, stepped>>

utilityVars == <<qualifiers, defaultAction>>

vars ==
    <<m_root, m_dict, m_scopeStack, pos, result, log, steps, op, built,
      m_current, m_program, m_threads, blackboard, stepped, qualifiers,
      defaultAction>>

----------------------------------------------------------------------------
(* Bounds *)

MaxChildren == 3    \* children of a composite
MaxSteps == 3       \* loadTree and tick calls in one behaviour
MaxLoop == 3        \* loop count of a Repeat decorator
MaxScript == 3      \* length of the outcome script of a host callable
MaxMarkers == 2     \* '#' and '@' markers in front of a name
MaxScopes == 2      \* depth of the scope stack
MaxResolve == 8     \* recursion depth after which a resolution is
                    \* taken not to return
MaxQualifiers == 3  \* (qualifier, action) pairs of a Selector

----------------------------------------------------------------------------
(* enum class Status *)

Status == {"Invalid", "Success", "Failure", "Running"}

\* what a tick can produce where the code's behaviour is undefined
\* (dereferencing an empty NodePtr): any status, or the process dying
UBOutcomes == Status \cup {"Crash"}

\* a host callable may leave by an exception instead of returning; the
\* engine catches nothing, so the exception unwinds every tick on the stack
\* and reaches the host
Thrown == "Throw"

\* a tick that does not return to its caller
Abrupt(s) == s = "Crash" \/ s = Thrown

\* a pointer that is neither null nor the address of a strategy
Wild == -1

Min(a, b) == IF a < b THEN a ELSE b

SeqsUpTo(S, n) == UNION {[1..k -> S] : k \in 0..n}

----------------------------------------------------------------------------
(* Host callables *)

LeafIds == 1..(2 * MaxChildren)

NoCallable == [id |-> 0, script |-> <<>>]

Callable(i, script) == [id |-> i, script |-> script]

\* the outcome a callable returns when it has been invoked k times before
Outcome(c, k) == c.script[(k % Len(c.script)) + 1]

----------------------------------------------------------------------------
(* Runtime nodes *)

Null == [kind |-> "Null"]

Ret(s, st) == [status |-> s, st |-> st]

RECURSIVE tick(_, _, _)

\* child->tick(tree) with no test of the pointer: undefined for an empty
\* NodePtr, where the build yields some status or the process dies
UncheckedChildTick(child, st, ub) ==
    IF child.kind = "Null" THEN Ret(ub, st) ELSE tick(child, st, ub)

\* LeafNode::tick
LeafNode_tick(node, st) ==
    IF node.m_tick.script = <<>>
    THEN Ret("Invalid", st)
    ELSE LET c == node.m_tick
             k == st.pos[c.id]
         IN  Ret(Outcome(c, k),
                 [st EXCEPT !.pos[c.id] = (k + 1) % Len(c.script),
                            !.log = Append(@, c.id)])

\* DecoratorNode::tick; the host's decorator is taken to tick the child it
\* is handed once and to return the child's outcome
DecoratorNode_tick(node, st, ub) ==
    LET st1 == [st EXCEPT !.log = Append(@, node.m_tick.id)]
    IN  UncheckedChildTick(node.m_child, st1, ub)

\* the loop of SelectorNode::tick going on after an Invalid child as after
\* a failed one
RECURSIVE SelectorLoop_invalidAsFailure(_, _, _, _)
SelectorLoop_invalidAsFailure(cs, i, st, ub) ==
    IF i > Len(cs) THEN Ret("Success", st)
    ELSE IF cs[i].kind = "Null" THEN Ret("Invalid", st)
    ELSE LET r == tick(cs[i], st, ub)
         IN  IF r.status # "Failure" /\ r.status # "Invalid" THEN r
             ELSE SelectorLoop_invalidAsFailure(cs, i + 1, r.st, ub)

RECURSIVE SelectorLoop(_, _, _, _)
SelectorLoop(cs, i, st, ub) ==
    IF i > Len(cs) THEN Ret("Success", st)
    ELSE IF cs[i].kind = "Null" THEN Ret("Invalid", st)
    ELSE LET r == tick(cs[i], st, ub)
         IN  IF r.status # "Failure" THEN r
             ELSE SelectorLoop(cs, i + 1, r.st, ub)

\* SelectorNode::tick
SelectorNode_tick(node, st, ub) ==
    IF node.m_children = <<>> THEN Ret("Invalid", st)
    ELSE SelectorLoop(node.m_children, 1, st, ub)

RECURSIVE SequenceLoop(_, _, _, _)
SequenceLoop(cs, i, st, ub) ==
    IF i > Len(cs) THEN Ret("Success", st)
    ELSE IF cs[i].kind = "Null" THEN Ret("Invalid", st)
    ELSE LET r == tick(cs[i], st, ub)
         IN  IF r.status # "Success" THEN r
             ELSE SequenceLoop(cs, i + 1, r.st, ub)

\* SequenceNode::tick continuing on the Selector's condition
SequenceNode_tick_selectorLoop(node, st, ub) ==
    IF node.m_children = <<>> THEN Ret("Invalid", st)
    ELSE SelectorLoop(node.m_children, 1, st, ub)

\* SequenceNode::tick remembering that a child was Running and starting the
\* next scan at the last child
SequenceNode_tick_resume(node, st, ub) ==
    IF node.m_children = <<>> THEN Ret("Invalid", st)
    ELSE LET r == SequenceLoop(node.m_children,
                               IF st.m_current = 0 THEN 1
                               ELSE Len(node.m_children),
                               st, ub)
         IN  IF r.status = "Running"
             THEN Ret(r.status, [r.st EXCEPT !.m_current = 1])
             ELSE r

\* SequenceNode::tick
SequenceNode_tick(node, st, ub) ==
    IF node.m_children = <<>> THEN Ret("Invalid", st)
    ELSE SequenceLoop(node.m_children, 1, st, ub)

\* ParallelNode::tick, shipped as a stub: no child is ticked and the
\* value-initialised Status (enumerator 0, Invalid) is returned
ParallelNode_tick(node, st, ub) ==
    Ret("Invalid", st)

\* SimpleDecoratorNode<status>::tick replacing every outcome but Invalid
SimpleDecoratorNode_tick_replaceRunning(status, node, st, ub) ==
    IF node.m_child.kind = "Null" THEN Ret("Invalid", st)
    ELSE LET r == tick(node.m_child, st, ub)
         IN  IF r.status # "Invalid" /\ ~Abrupt(r.status)
             THEN Ret(status, r.st)
             ELSE r

\* SimpleDecoratorNode<status>::tick
SimpleDecoratorNode_tick(status, node, st, ub) ==
    IF node.m_child.kind = "Null" THEN Ret("Invalid", st)
    ELSE LET r == tick(node.m_child, st, ub)
         IN  IF r.status = "Success" \/ r.status = "Failure"
             THEN Ret(status, r.st)
             ELSE r

\* NegateDecoratorNode::tick without the Failure branch
NegateDecoratorNode_tick_oneWay(node, st, ub) ==
    IF node.m_child.kind = "Null" THEN Ret("Invalid", st)
    ELSE LET r == tick(node.m_child, st, ub)
         IN  IF r.status = "Success" THEN Ret("Failure", r.st)
             ELSE r

\* NegateDecoratorNode::tick
NegateDecoratorNode_tick(node, st, ub) ==
    IF node.m_child.kind = "Null" THEN Ret("Invalid", st)
    ELSE LET r == tick(node.m_child, st, ub)
         IN  IF r.status = "Success" THEN Ret("Failure", r.st)
             ELSE IF r.status = "Failure" THEN Ret("Success", r.st)
             ELSE r

RECURSIVE RepeatLoop(_, _, _, _, _)
RepeatLoop(child, i, status, st, ub) ==
    IF i > 0
    THEN LET r == tick(child, st, ub)
         IN  IF r.status = "Running" \/ r.status = "Invalid" \/ Abrupt(r.status)
             THEN r
             ELSE RepeatLoop(child, i - 1, r.status, r.st, ub)
    ELSE Ret(status, st)

\* RepeatDecoratorNode::tick with the loop ending at i > 1
RepeatDecoratorNode_tick_offByOne(node, st, ub) ==
    IF node.m_child.kind = "Null" THEN Ret("Invalid", st)
    ELSE RepeatLoop(node.m_child, node.m_loopCount - 1, "Invalid", st, ub)

\* RepeatDecoratorNode::tick
RepeatDecoratorNode_tick(node, st, ub) ==
    IF node.m_child.kind = "Null" THEN Ret("Invalid", st)
    ELSE RepeatLoop(node.m_child, node.m_loopCount, "Invalid", st, ub)

RECURSIVE RepeatWhileLoop(_, _, _, _, _)
RepeatWhileLoop(cont, cs, i, st, ub) ==
    IF i > Len(cs) THEN Ret("Running", st)
    ELSE LET r == UncheckedChildTick(cs[i], st, ub)
         IN  IF r.status # cont THEN r
             ELSE RepeatWhileLoop(cont, cs, i + 1, r.st, ub)

\* RepeatWhileSuccessfulNode::tick left as the inherited SequenceNode::tick
RepeatWhileSuccessfulNode_tick_inherited(node, st, ub) ==
    SequenceNode_tick(node, st, ub)

\* RepeatWhileSuccessfulNode::tick
RepeatWhileSuccessfulNode_tick(node, st, ub) ==
    IF node.m_children = <<>> THEN Ret("Invalid", st)
    ELSE RepeatWhileLoop("Success", node.m_children, 1, st, ub)

\* RepeatWhileFailureNode::tick
RepeatWhileFailureNode_tick(node, st, ub) ==
    IF node.m_children = <<>> THEN Ret("Invalid", st)
    ELSE RepeatWhileLoop("Failure", node.m_children, 1, st, ub)

----------------------------------------------------------------------------
(* Blackboard *)

EmptyDict == [n \in {} |-> <<>>]

\* DictBlackboard::setFact
setFact(dict, factName, data) ==
    [n \in DOMAIN dict \cup {factName} |->
        IF n = factName THEN data ELSE dict[n]]

\* DictBlackboard::getFact
getFact(dict, fact) ==
    IF fact \in DOMAIN dict
    THEN [ok |-> TRUE, factData |-> dict[fact]]
    ELSE [ok |-> FALSE, factData |-> <<>>]

\* DictBlackboard::removeFact
removeFact(dict, factName) ==
    [n \in DOMAIN dict \ {factName} |-> dict[n]]

\* DictBlackboard::factExists
factExists(dict, factName) == factName \in DOMAIN dict

\* NodeScope::getScopeVar
getScopeVar(m_values, key) ==
    IF key \in DOMAIN m_values
    THEN [ok |-> TRUE, value |-> m_values[key]]
    ELSE [ok |-> FALSE, value |-> <<>>]

\* Tree::getScopedVar reading the oldest frame instead of the newest
getScopedVar_bottom(scopeStack, varName) ==
    IF scopeStack = <<>>
    THEN [ok |-> FALSE, value |-> <<>>]
    ELSE getScopeVar(scopeStack[1], varName)

\* Tree::getScopedVar
getScopedVar(scopeStack, varName) ==
    IF scopeStack = <<>>
    THEN [ok |-> FALSE, value |-> <<>>]
    ELSE getScopeVar(scopeStack[Len(scopeStack)], varName)

\* Tree::pushScope
pushScope(scopeStack, scope) == Append(scopeStack, scope)

\* Tree::popScope
popScope(scopeStack) == SubSeq(scopeStack, 1, Len(scopeStack) - 1)

NoRef == [ok |-> FALSE, result |-> <<>>, diverged |-> FALSE]

\* Blackboard::getFactRef resolving the value read from the store once more
RECURSIVE getFactRefAt_reresolve(_, _, _, _)
getFactRefAt_reresolve(factName, dict, scopeStack, depth) ==
    IF depth > MaxResolve
    THEN [ok |-> FALSE, result |-> <<>>, diverged |-> TRUE]
    ELSE IF factName = <<>> THEN NoRef
    ELSE IF Head(factName) = "#"
    THEN LET v == getScopedVar(scopeStack, Tail(factName))
         IN  IF ~v.ok THEN NoRef
             ELSE getFactRefAt_reresolve(v.value, dict, scopeStack, depth + 1)
    ELSE IF Head(factName) = "@"
    THEN LET t == getFactRefAt_reresolve(Tail(factName), dict, scopeStack,
                                         depth + 1)
         IN  IF ~t.ok THEN t
             ELSE LET f == getFact(dict, t.result)
                  IN  IF ~f.ok THEN NoRef
                      ELSE getFactRefAt_reresolve(f.factData, dict,
                                                  scopeStack, depth + 1)
    ELSE [ok |-> TRUE, result |-> factName, diverged |-> FALSE]

\* Blackboard::getFactRef with the depth of the recursion made explicit.
\* The out-parameter is read by no caller after a failed call and is left
\* empty here in that case.  The tree pointer is never null at a call site.
RECURSIVE getFactRefAt(_, _, _, _)
getFactRefAt(factName, dict, scopeStack, depth) ==
    IF depth > MaxResolve
    THEN [ok |-> FALSE, result |-> <<>>, diverged |-> TRUE]
    ELSE IF factName = <<>> THEN NoRef
    ELSE IF Head(factName) = "#"
    THEN LET v == getScopedVar(scopeStack, Tail(factName))
         IN  IF ~v.ok THEN NoRef
             ELSE getFactRefAt(v.value, dict, scopeStack, depth + 1)
    ELSE IF Head(factName) = "@"
    THEN LET t == getFactRefAt(Tail(factName), dict, scopeStack, depth + 1)
         IN  IF ~t.ok THEN t
             ELSE LET f == getFact(dict, t.result)
                  IN  IF ~f.ok THEN NoRef
                      ELSE [ok |-> TRUE, result |-> f.factData,
                            diverged |-> FALSE]
    ELSE [ok |-> TRUE, result |-> factName, diverged |-> FALSE]

\* Blackboard::getFactRef
getFactRef(factName, dict, scopeStack) ==
    getFactRefAt(factName, dict, scopeStack, 0)

----------------------------------------------------------------------------
(* Fact nodes *)

\* FactExistsNode::tick
FactExistsNode_tick(node, st) ==
    IF factExists(st.m_dict, node.m_factName)
    THEN Ret("Success", st)
    ELSE Ret("Failure", st)

\* RemoveFactNode::tick
RemoveFactNode_tick(node, st) ==
    Ret("Success", [st EXCEPT !.m_dict = removeFact(@, node.m_factName)])

\* SetFactConstNode::tick storing the value operand as written
SetFactConstNode_tick_rawValue(node, st) ==
    LET factName == getFactRef(node.m_factName, st.m_dict, st.m_scopeStack)
        factData == getFactRef(node.m_factData, st.m_dict, st.m_scopeStack)
    IN  IF ~factName.ok THEN Ret("Invalid", st)
        ELSE IF ~factData.ok THEN Ret("Invalid", st)
        ELSE Ret("Success",
                 [st EXCEPT !.m_dict =
                      setFact(@, factName.result, node.m_factData)])

\* SetFactConstNode::tick
SetFactConstNode_tick(node, st) ==
    LET factName == getFactRef(node.m_factName, st.m_dict, st.m_scopeStack)
        factData == getFactRef(node.m_factData, st.m_dict, st.m_scopeStack)
    IN  IF factName.diverged THEN Ret("Crash", st)
        ELSE IF ~factName.ok THEN Ret("Invalid", st)
        ELSE IF factData.diverged THEN Ret("Crash", st)
        ELSE IF ~factData.ok THEN Ret("Invalid", st)
        ELSE Ret("Success",
                 [st EXCEPT !.m_dict =
                      setFact(@, factName.result, factData.result)])

\* FactEqualsConstantNode::tick taking a fact that is not stored as unequal
FactEqualsConstantNode_tick_missingIsFailure(node, st) ==
    LET factName == getFactRef(node.m_factName, st.m_dict, st.m_scopeStack)
        factData == getFactRef(node.m_factData, st.m_dict, st.m_scopeStack)
    IN  IF ~factName.ok THEN Ret("Invalid", st)
        ELSE IF ~factData.ok THEN Ret("Invalid", st)
        ELSE LET fact == getFact(st.m_dict, factName.result)
             IN  IF fact.ok /\ fact.factData = factData.result
                 THEN Ret("Success", st)
                 ELSE Ret("Failure", st)

\* FactEqualsConstantNode::tick
FactEqualsConstantNode_tick(node, st) ==
    LET factName == getFactRef(node.m_factName, st.m_dict, st.m_scopeStack)
        factData == getFactRef(node.m_factData, st.m_dict, st.m_scopeStack)
    IN  IF factName.diverged THEN Ret("Crash", st)
        ELSE IF ~factName.ok THEN Ret("Invalid", st)
        ELSE IF factData.diverged THEN Ret("Crash", st)
        ELSE IF ~factData.ok THEN Ret("Invalid", st)
        ELSE LET fact == getFact(st.m_dict, factName.result)
             IN  IF ~fact.ok THEN Ret("Invalid", st)
                 ELSE IF fact.factData = factData.result
                 THEN Ret("Success", st)
                 ELSE Ret("Failure", st)

----------------------------------------------------------------------------
(* Scope node *)

\* the order of char values in the strings used here
Alphabet == <<"#", "@", "x", "y", "z">>

CharRank(c) == CHOOSE k \in 1..Len(Alphabet) : Alphabet[k] = c

\* std::less<std::string>
RECURSIVE StrLess(_, _)
StrLess(a, b) ==
    IF b = <<>> THEN FALSE
    ELSE IF a = <<>> THEN TRUE
    ELSE IF Head(a) = Head(b) THEN StrLess(Tail(a), Tail(b))
    ELSE CharRank(Head(a)) < CharRank(Head(b))

\* the keys of a std::map in the order its iteration visits them
RECURSIVE KeyOrder(_)
KeyOrder(S) ==
    IF S = {} THEN <<>>
    ELSE LET k == CHOOSE k \in S : \A j \in S \ {k} : StrLess(k, j)
         IN  <<k>> \o KeyOrder(S \ {k})

\* the loop of ScopeNode::tick over m_params: each value is resolved against
\* the scope stack of st; the first that fails ends the loop
RECURSIVE ScopeParams(_, _, _, _)
ScopeParams(m_params, keys, st, params) ==
    IF keys = <<>>
    THEN [ok |-> TRUE, diverged |-> FALSE, params |-> params]
    ELSE LET temp == getFactRef(m_params[Head(keys)], st.m_dict,
                                st.m_scopeStack)
         IN  IF ~temp.ok
             THEN [ok |-> FALSE, diverged |-> temp.diverged,
                   params |-> params]
             ELSE ScopeParams(m_params, Tail(keys), st,
                              setFact(params, Head(keys), temp.result))

\* NodeScope::NodeScope
NodeScope(values) == values

\* ScopeNode::tick pushing its frame before it resolves the parameters
ScopeNode_tick_pushFirst(node, st, ub) ==
    LET st0 == [st EXCEPT !.m_scopeStack = pushScope(@, NodeScope(EmptyDict))]
        p == ScopeParams(node.m_params, KeyOrder(DOMAIN node.m_params), st0,
                         EmptyDict)
    IN  IF ~p.ok THEN Ret("Invalid", st)
        ELSE LET st1 == [st EXCEPT !.m_scopeStack =
                                      pushScope(@, NodeScope(p.params))]
                 r == UncheckedChildTick(node.m_child, st1, ub)
             IN  IF Abrupt(r.status) THEN r
                 ELSE Ret(r.status,
                          [r.st EXCEPT !.m_scopeStack = popScope(@)])

\* ScopeNode::tick; popScope is an ordinary statement after the child's tick,
\* which an exception leaving the child does not reach
ScopeNode_tick(node, st, ub) ==
    LET p == ScopeParams(node.m_params, KeyOrder(DOMAIN node.m_params), st,
                         EmptyDict)
    IN  IF p.diverged THEN Ret("Crash", st)
        ELSE IF ~p.ok THEN Ret("Invalid", st)
        ELSE LET st1 == [st EXCEPT !.m_scopeStack =
                                      pushScope(@, NodeScope(p.params))]
                 r == UncheckedChildTick(node.m_child, st1, ub)
             IN  IF Abrupt(r.status) THEN r
                 ELSE Ret(r.status,
                          [r.st EXCEPT !.m_scopeStack = popScope(@)])

----------------------------------------------------------------------------
(* Decision node *)

\* StrategyNode::tick
StrategyNode_tick(node, st) == Ret("Invalid", st)

\* the scan of DecisionNode::tick without m_current = strategy.get()
RECURSIVE DecisionLoop_noLatch(_, _, _, _)
DecisionLoop_noLatch(strategies, i, st, ub) ==
    IF i > Len(strategies) THEN Ret("Invalid", st)
    ELSE LET condition ==
                 UncheckedChildTick(strategies[i].m_condition, st, ub)
         IN  IF condition.status = "Success"
             THEN UncheckedChildTick(strategies[i].m_action, condition.st, ub)
             ELSE IF condition.status # "Failure" THEN condition
             ELSE DecisionLoop_noLatch(strategies, i + 1, condition.st, ub)

\* the scan of DecisionNode::tick going on after every condition that does
\* not return Success
RECURSIVE DecisionLoop_skipBroken(_, _, _, _)
DecisionLoop_skipBroken(strategies, i, st, ub) ==
    IF i > Len(strategies) THEN Ret("Invalid", st)
    ELSE LET condition ==
                 UncheckedChildTick(strategies[i].m_condition, st, ub)
         IN  IF condition.status = "Success"
             THEN LET r == UncheckedChildTick(strategies[i].m_action,
                                              condition.st, ub)
                  IN  IF r.status = "Running"
                      THEN Ret("Running", [r.st EXCEPT !.m_current = i])
                      ELSE r
             ELSE DecisionLoop_skipBroken(strategies, i + 1, condition.st, ub)

\* the scan of DecisionNode::tick ending in Failure when no condition held
RECURSIVE DecisionLoop_failureAtEnd(_, _, _, _)
DecisionLoop_failureAtEnd(strategies, i, st, ub) ==
    IF i > Len(strategies) THEN Ret("Failure", st)
    ELSE LET condition ==
                 UncheckedChildTick(strategies[i].m_condition, st, ub)
         IN  IF condition.status = "Success"
             THEN LET r == UncheckedChildTick(strategies[i].m_action,
                                              condition.st, ub)
                  IN  IF r.status = "Running"
                      THEN Ret("Running", [r.st EXCEPT !.m_current = i])
                      ELSE r
             ELSE IF condition.status # "Failure" THEN condition
             ELSE DecisionLoop_failureAtEnd(strategies, i + 1, condition.st,
                                            ub)

\* the unlatched branch of DecisionNode::tick, from strategy i on
RECURSIVE DecisionLoop(_, _, _, _)
DecisionLoop(strategies, i, st, ub) ==
    IF i > Len(strategies) THEN Ret("Invalid", st)
    ELSE LET condition ==
                 UncheckedChildTick(strategies[i].m_condition, st, ub)
         IN  IF condition.status = "Success"
             THEN LET r == UncheckedChildTick(strategies[i].m_action,
                                              condition.st, ub)
                  IN  IF r.status = "Running"
                      THEN Ret("Running", [r.st EXCEPT !.m_current = i])
                      ELSE r
             ELSE IF condition.status # "Failure" THEN condition
             ELSE DecisionLoop(strategies, i + 1, condition.st, ub)

\* DecisionNode::tick scanning the strategies whatever m_current is
DecisionNode_tick_rescan(node, st, ub) ==
    DecisionLoop(node.m_strategies, 1, st, ub)

\* DecisionNode::tick; a Wild m_current is dereferenced like any other
DecisionNode_tick(node, st, ub) ==
    IF st.m_current # 0
    THEN LET r == IF st.m_current \in 1..Len(node.m_strategies)
                  THEN UncheckedChildTick(
                           node.m_strategies[st.m_current].m_action, st, ub)
                  ELSE Ret(ub, st)
         IN  IF Abrupt(r.status) \/ r.status = "Running" THEN r
             ELSE Ret(r.status, [r.st EXCEPT !.m_current = 0])
    ELSE DecisionLoop(node.m_strategies, 1, st, ub)

\* BaseNode::tick, the virtual dispatch on the node's class
tick(node, st, ub) ==
    CASE node.kind = "LeafNode" -> LeafNode_tick(node, st)
      [] node.kind = "DecoratorNode" -> DecoratorNode_tick(node, st, ub)
      [] node.kind = "SelectorNode" -> SelectorNode_tick(node, st, ub)
      [] node.kind = "SequenceNode" -> SequenceNode_tick(node, st, ub)
      [] node.kind = "ParallelNode" -> ParallelNode_tick(node, st, ub)
      [] node.kind = "TrueDecoratorNode" ->
             SimpleDecoratorNode_tick("Success", node, st, ub)
      [] node.kind = "FalseDecoratorNode" ->
             SimpleDecoratorNode_tick("Failure", node, st, ub)
      [] node.kind = "NegateDecoratorNode" ->
             NegateDecoratorNode_tick(node, st, ub)
      [] node.kind = "RepeatDecoratorNode" ->
             RepeatDecoratorNode_tick(node, st, ub)
      [] node.kind = "RepeatWhileSuccessfulNode" ->
             RepeatWhileSuccessfulNode_tick(node, st, ub)
      [] node.kind = "RepeatWhileFailureNode" ->
             RepeatWhileFailureNode_tick(node, st, ub)
      [] node.kind = "FactExistsNode" -> FactExistsNode_tick(node, st)
      [] node.kind = "RemoveFactNode" -> RemoveFactNode_tick(node, st)
      [] node.kind = "SetFactConstNode" -> SetFactConstNode_tick(node, st)
      [] node.kind = "FactEqualsConstantNode" ->
             FactEqualsConstantNode_tick(node, st)
      [] node.kind = "ScopeNode" -> ScopeNode_tick(node, st, ub)
      [] node.kind = "StrategyNode" -> StrategyNode_tick(node, st)
      [] node.kind = "DecisionNode" -> DecisionNode_tick(node, st, ub)

----------------------------------------------------------------------------
(* Runtime node constructors *)

\* LeafNode::LeafNode
LeafNode(tck, params) ==
    [kind |-> "LeafNode", m_tick |-> tck, m_params |-> params]

\* DecoratorNode::DecoratorNode
DecoratorNode(tck, params, child) ==
    [kind |-> "DecoratorNode", m_tick |-> tck, m_params |-> params,
     m_child |-> child]

\* SelectorNode::SelectorNode
SelectorNode(children) == [kind |-> "SelectorNode", m_children |-> children]

\* SequenceNode::SequenceNode
SequenceNode(children) == [kind |-> "SequenceNode", m_children |-> children]

\* ParallelNode::ParallelNode(ref, threshold, children)
ParallelNode(threshold, children) ==
    [kind |-> "ParallelNode", m_children |-> children,
     m_threshold |-> threshold]

\* ParallelNode::ParallelNode(ref, children); children.size() - 1 wraps
\* around for an empty vector, a call no descriptor leads to
ParallelNodeDefault(children) == ParallelNode(Len(children) - 1, children)

\* TrueDecoratorNode::TrueDecoratorNode
TrueDecoratorNode(child) == [kind |-> "TrueDecoratorNode", m_child |-> child]

\* FalseDecoratorNode::FalseDecoratorNode
FalseDecoratorNode(child) == [kind |-> "FalseDecoratorNode", m_child |-> child]

\* NegateDecoratorNode::NegateDecoratorNode
NegateDecoratorNode(child) ==
    [kind |-> "NegateDecoratorNode", m_child |-> child]

\* RepeatDecoratorNode::RepeatDecoratorNode
RepeatDecoratorNode(loopCount, child) ==
    [kind |-> "RepeatDecoratorNode", m_loopCount |-> loopCount,
     m_child |-> child]

\* RepeatWhileSuccessfulNode::RepeatWhileSuccessfulNode
RepeatWhileSuccessfulNode(children) ==
    [kind |-> "RepeatWhileSuccessfulNode", m_children |-> children]

\* RepeatWhileFailureNode::RepeatWhileFailureNode
RepeatWhileFailureNode(children) ==
    [kind |-> "RepeatWhileFailureNode", m_children |-> children]

\* FactExistsNode::FactExistsNode
FactExistsNode(factName) ==
    [kind |-> "FactExistsNode", m_factName |-> factName]

\* RemoveFactNode::RemoveFactNode
RemoveFactNode(factName) ==
    [kind |-> "RemoveFactNode", m_factName |-> factName]

\* SetFactConstNode::SetFactConstNode
SetFactConstNode(factName, factData) ==
    [kind |-> "SetFactConstNode", m_factName |-> factName,
     m_factData |-> factData]

\* FactEqualsConstantNode::FactEqualsConstantNode
FactEqualsConstantNode(factName, factData) ==
    [kind |-> "FactEqualsConstantNode", m_factName |-> factName,
     m_factData |-> factData]

\* DecisionNode::DecisionNode; m_current is not among its initialisers
DecisionNode(strategies) ==
    [kind |-> "DecisionNode", m_strategies |-> strategies]

\* class StrategyNode, which declares no constructor: its two fields
StrategyNode(condition, action) ==
    [kind |-> "StrategyNode", m_condition |-> condition, m_action |-> action]

\* class ScopeNode, which declares no constructor: its two fields
ScopeNode(params, child) ==
    [kind |-> "ScopeNode", m_params |-> params, m_child |-> child]

\* the values m_current may hold in a node whose constructor has just run
Latches(root) ==
    IF root.kind = "DecisionNode"
    THEN (0..Len(root.m_strategies)) \cup {Wild}
    ELSE {0}

----------------------------------------------------------------------------
(* std::to_string(size_t) and std::atoi *)

Digits == <<"0", "1", "2", "3", "4", "5", "6", "7", "8", "9">>

DigitValue(c) == (CHOOSE k \in 1..10 : Digits[k] = c) - 1

IsDigit(c) == \E k \in 1..10 : Digits[k] = c

RECURSIVE to_string(_)
to_string(n) ==
    IF n < 10 THEN <<Digits[n + 1]>>
    ELSE Append(to_string(n \div 10), Digits[(n % 10) + 1])

RECURSIVE AtoiDigits(_, _, _)
AtoiDigits(str, i, acc) ==
    IF i > Len(str) \/ ~IsDigit(str[i]) THEN acc
    ELSE AtoiDigits(str, i + 1, 10 * acc + DigitValue(str[i]))

RECURSIVE SkipSpaces(_, _)
SkipSpaces(str, i) ==
    IF i <= Len(str) /\ str[i] = " " THEN SkipSpaces(str, i + 1) ELSE i

atoi(str) ==
    LET i == SkipSpaces(str, 1)
    IN  IF i <= Len(str) /\ str[i] = "-" THEN 0 - AtoiDigits(str, i + 1, 0)
        ELSE IF i <= Len(str) /\ str[i] = "+" THEN AtoiDigits(str, i + 1, 0)
        ELSE AtoiDigits(str, i, 0)

----------------------------------------------------------------------------
(* Node descriptors (struct Node and the builders derived from it) *)

\* Node::Node(name, ref, children, params) and its shorter forms
Node(name, children, params) ==
    [m_name |-> name, m_children |-> children, m_params |-> params,
     m_leaf |-> NoCallable, m_decorator |-> NoCallable]

\* Node::Node(leaf)
NodeLeaf(leaf) ==
    [m_name |-> "", m_children |-> <<>>, m_params |-> <<>>,
     m_leaf |-> leaf, m_decorator |-> NoCallable]

\* Node::Node(decorator, child)
NodeDecorator(decorator, child) ==
    [m_name |-> "", m_children |-> <<child>>, m_params |-> <<>>,
     m_leaf |-> NoCallable, m_decorator |-> decorator]

Sequence(children) == Node("Sequence", children, <<>>)

Selector(children) == Node("Selector", children, <<>>)

\* Parallel(ref, successThreshold, failureThreshold, children)
ParallelFull(successThreshold, failureThreshold, children) ==
    Node("Parallel", children,
         <<to_string(successThreshold), to_string(failureThreshold)>>)

\* Parallel(ref, children)
ParallelChildren(children) == ParallelFull(Len(children), 1, children)

\* Parallel(ref, threshold, children), for threshold <= children.size()
ParallelThreshold(threshold, children) ==
    ParallelFull(threshold, Len(children) - threshold, children)

FirstReturn(children) == Node("FirstReturn", children, <<>>)

ReturnTrue(child) == Node("ReturnTrue", <<child>>, <<>>)

ReturnFalse(child) == Node("ReturnFalse", <<child>>, <<>>)

Negate(child) == Node("Negate", <<child>>, <<>>)

FactExists(fact) == Node("FactExists", <<>>, <<fact>>)

RemoveFact(fact) == Node("RemoveFact", <<>>, <<fact>>)

SetFactConst(fact, constant) == Node("SetFactConst", <<>>, <<fact, constant>>)

FactEqualsConst(fact, constant) ==
    Node("FactEqualsConst", <<>>, <<fact, constant>>)

UntilTrue(children) == Node("UntilTrue", children, <<>>)

UntilFalse(children) == Node("UntilFalse", children, <<>>)

AlwaysRun(children) == Node("AlwaysRun", children, <<>>)

Strategy(condition, action) == Node("Strategy", <<condition, action>>, <<>>)

----------------------------------------------------------------------------
(* Compiler *)

RECURSIVE createNode(_)

CreateChildren(node) ==
    [i \in 1..Len(node.m_children) |-> createNode(node.m_children[i])]

FactoryNames ==
    {"Selector", "Sequence", "Parallel", "UntilFalse", "UntilTrue",
     "ReturnTrue", "ReturnFalse", "Negate", "FactExists", "RemoveFact",
     "SetFactConst", "FactEqualsConst"}

\* the Parallel entry of nodeFactory
ParallelFactory(node) ==
    IF node.m_params = <<>>
    THEN ParallelNodeDefault(CreateChildren(node))
    ELSE ParallelNode(atoi(node.m_params[1]), CreateChildren(node))

\* nodeFactory, the registry of constructors by kind
nodeFactory(node) ==
    CASE node.m_name = "Selector" -> SelectorNode(CreateChildren(node))
      [] node.m_name = "Sequence" -> SequenceNode(CreateChildren(node))
      [] node.m_name = "Parallel" -> ParallelFactory(node)
      [] node.m_name = "UntilFalse" ->
             RepeatWhileSuccessfulNode(CreateChildren(node))
      [] node.m_name = "UntilTrue" ->
             RepeatWhileFailureNode(CreateChildren(node))
      [] node.m_name = "ReturnTrue" ->
             TrueDecoratorNode(createNode(node.m_children[1]))
      [] node.m_name = "ReturnFalse" ->
             FalseDecoratorNode(createNode(node.m_children[1]))
      [] node.m_name = "Negate" ->
             NegateDecoratorNode(createNode(node.m_children[1]))
      [] node.m_name = "FactExists" -> FactExistsNode(node.m_params[1])
      [] node.m_name = "RemoveFact" -> RemoveFactNode(node.m_params[1])
      [] node.m_name = "SetFactConst" ->
             SetFactConstNode(node.m_params[1], node.m_params[2])
      [] node.m_name = "FactEqualsConst" ->
             FactEqualsConstantNode(node.m_params[1], node.m_params[2])

\* Tree::createNode compiling a kind it does not know like a Sequence
createNode_unknownAsSequence(node) ==
    IF node.m_leaf.script # <<>>
    THEN LeafNode(node.m_leaf, node.m_params)
    ELSE IF node.m_decorator.script # <<>>
    THEN DecoratorNode(node.m_decorator, node.m_params,
                       createNode(node.m_children[1]))
    ELSE IF node.m_name \in FactoryNames
    THEN nodeFactory(node)
    ELSE IF node.m_name = "Decision"
    THEN DecisionNode(CreateChildren(node))
    ELSE SequenceNode(CreateChildren(node))

\* Tree::createNode
createNode(node) ==
    IF node.m_leaf.script # <<>>
    THEN LeafNode(node.m_leaf, node.m_params)
    ELSE IF node.m_decorator.script # <<>>
    THEN DecoratorNode(node.m_decorator, node.m_params,
                       createNode(node.m_children[1]))
    ELSE IF node.m_name \in FactoryNames
    THEN nodeFactory(node)
    ELSE IF node.m_name = "FactEqualsConst"
    THEN FactEqualsConstantNode(node.m_params[1], node.m_params[2])
    ELSE IF node.m_name = "Decision"
    THEN DecisionNode(CreateChildren(node))
    ELSE Null

\* Tree::tick
Tree_tick(root, st, ub) ==
    IF root.kind = "Null" THEN Ret("Invalid", st) ELSE tick(root, st, ub)

----------------------------------------------------------------------------
(* Bytecode VM (src/src/ofxBehaviourTreeVM.{h,cpp}) *)

\* enum class Status of namespace BTVM
VMStatus == Status \cup {"Suspended"}

\* what a step can produce where the code's behaviour is undefined (an index
\* outside a vector): any status, or the process dying
VMUBOutcomes == VMStatus \cup {"Crash"}

\* BehaviorTreeVMProgram::ops
ops_run == 0

ops_run_thr == 1

ops_run_dec == 2

ops_bra_f == 3

ops_bra_t == 4

ops_set_f == 5

ops_set_t == 6

ops_neg == 7

ops_chk_fact == 8

ops_rm_fact == 9

ops_dbg_break == 10

ops_log == 11

\* struct BehaviorTreeVMProgram
BehaviorTreeVMProgram(program, leaves, decoratorNodes, stringTable) ==
    [m_program |-> program, m_leaves |-> leaves,
     m_decoratorNodes |-> decoratorNodes, m_stringTable |-> stringTable]

NoProgram == [m_program |-> <<>>]

\* struct BehaviorTreeVMThread
BehaviorTreeVMThread(pc, threadStart, current) ==
    [m_pc |-> pc, m_threadStart |-> threadStart, m_current |-> current]

\* std::vector::operator[] with the code's indices, which count from 0
InVector(v, k) == k >= 0 /\ k < Len(v)

At(v, k) == v[k + 1]

\* BTVM DictBlackboard::hasFact
hasFact(m_board, fact) == fact \in DOMAIN m_board

\* BTVM DictBlackboard::removeFact
BTVM_removeFact(m_board, fact) ==
    [n \in DOMAIN m_board \ {fact} |-> m_board[n]]

\* BehaviorTreeVMThread::reset
reset(thread) ==
    [thread EXCEPT !.m_pc = thread.m_threadStart, !.m_current = "Invalid"]

PcOf(vst, t) == vst.m_threads[t + 1].m_pc

CurrentOf(vst, t) == vst.m_threads[t + 1].m_current

SetThread(vst, t, pc, current) ==
    [vst EXCEPT !.m_threads[t + 1].m_pc = pc,
                !.m_threads[t + 1].m_current = current]

\* an access outside a vector: the step yields some status or the process
\* dies
Undefined(vst, t, ub) ==
    IF ub = "Crash" THEN Ret("Crash", vst)
    ELSE Ret(ub, SetThread(vst, t, PcOf(vst, t), ub))

\* case ops::run and case ops::run_dec, which are the same statements: the
\* operand indexes m_leaves; an empty std::function throws
eval_run(prog, vst, t, ub) ==
    LET pc == PcOf(vst, t)
    IN  IF ~InVector(prog.m_program, pc + 1) THEN Undefined(vst, t, ub)
        ELSE IF ~InVector(prog.m_leaves, At(prog.m_program, pc + 1))
        THEN Undefined(vst, t, ub)
        ELSE LET c == At(prog.m_leaves, At(prog.m_program, pc + 1))
             IN  IF c.script = <<>> THEN Ret(Thrown, vst)
                 ELSE LET k == vst.pos[c.id]
                          o == Outcome(c, k)
                          vst1 == [vst EXCEPT
                                     !.pos[c.id] = (k + 1) % Len(c.script),
                                     !.log = Append(@, c.id)]
                      IN  IF o = Thrown THEN Ret(Thrown, vst1)
                          ELSE IF o \in {"Failure", "Success", "Running"}
                          THEN Ret("Running", SetThread(vst1, t, pc + 2, o))
                          ELSE Ret(o, SetThread(vst1, t, pc, o))

\* case ops::run_dec
eval_run_dec(prog, vst, t, ub) == eval_run(prog, vst, t, ub)

\* case ops::bra_f and case ops::bra_t
eval_bra(on, prog, vst, t, ub) ==
    LET pc == PcOf(vst, t)
    IN  IF CurrentOf(vst, t) = on
        THEN IF ~InVector(prog.m_program, pc + 1) THEN Undefined(vst, t, ub)
             ELSE Ret("Running",
                      SetThread(vst, t, pc + At(prog.m_program, pc + 1),
                                CurrentOf(vst, t)))
        ELSE Ret("Running", SetThread(vst, t, pc + 2, CurrentOf(vst, t)))

\* case ops::set_f and case ops::set_t returning the status they set
eval_set_returnsStatus(status, vst, t) ==
    Ret(status, SetThread(vst, t, PcOf(vst, t) + 1, status))

\* case ops::set_f and case ops::set_t
eval_set(status, vst, t) ==
    Ret("Running", SetThread(vst, t, PcOf(vst, t) + 1, status))

\* case ops::neg
eval_neg(vst, t) ==
    LET current == CurrentOf(vst, t)
    IN  Ret("Running",
            SetThread(vst, t, PcOf(vst, t) + 1,
                      IF current = "Failure" THEN "Success"
                      ELSE IF current = "Success" THEN "Failure"
                      ELSE current))

\* m_stringTable[k]; outside the table the read is of memory that holds no
\* string of the table: it yields the name of a fact of the store, or some
\* other string, unless the process dies of it (ub = "Crash", which the
\* callers test first)
StringAt(prog, k, ub) ==
    IF InVector(prog.m_stringTable, k) THEN At(prog.m_stringTable, k)
    ELSE IF ub = "Success" THEN <<"x">>
    ELSE IF ub = "Failure" THEN <<"y">>
    ELSE <<"?">>

\* case ops::chk_fact: the string is m_stringTable[m_pc + 1]
eval_chk_fact(prog, vst, t, ub) ==
    LET pc == PcOf(vst, t)
    IN  IF ~InVector(prog.m_stringTable, pc + 1) /\ ub = "Crash"
        THEN Ret("Crash", vst)
        ELSE Ret("Running",
                 SetThread(vst, t, pc + 2,
                           IF hasFact(vst.blackboard,
                                      StringAt(prog, pc + 1, ub))
                           THEN "Success" ELSE "Failure"))

\* case ops::rm_fact: the string is m_stringTable[m_pc + 1]
eval_rm_fact(prog, vst, t, ub) ==
    LET pc == PcOf(vst, t)
    IN  IF ~InVector(prog.m_stringTable, pc + 1) /\ ub = "Crash"
        THEN Ret("Crash", vst)
        ELSE Ret("Running",
                 SetThread([vst EXCEPT !.blackboard =
                               BTVM_removeFact(@, StringAt(prog, pc + 1,
                                                           ub))],
                           t, pc + 2, "Success"))

\* the default case moving on to the next cell
eval_default_skip(vst, t) ==
    Ret("Invalid", SetThread(vst, t, PcOf(vst, t) + 1, "Invalid"))

\* the default case
eval_default(vst, t) == Ret("Invalid", vst)

\* the rest of case ops::run_thr once eval of the other thread has returned r
\* without the caller's position depending on the outcome
run_thr_after_alwaysOn(r, other, t) ==
    IF Abrupt(r.status) THEN r
    ELSE Ret("Running",
             SetThread(r.st, t, PcOf(r.st, t) + 2, CurrentOf(r.st, other)))

\* the rest of case ops::run_thr once eval of the other thread has returned r
run_thr_after(r, other, t) ==
    IF Abrupt(r.status) THEN r
    ELSE LET current == CurrentOf(r.st, other)
         IN  IF current # "Invalid"
             THEN Ret("Running",
                      SetThread(r.st, t, PcOf(r.st, t) + 2, current))
             ELSE Ret("Invalid", SetThread(r.st, t, PcOf(r.st, t), current))

\* BehaviorTreeVMProgram::eval for the thread t, both pointers non-null.
\* active holds the threads whose eval is on the call stack: a run_thr into
\* one of them repeats the same calls without end and exhausts the stack.
RECURSIVE eval(_, _, _, _, _)
eval(prog, vst, t, ub, active) ==
    LET v0 == SetThread(vst, t, PcOf(vst, t), "Invalid")
        pc == PcOf(vst, t)
    IN  IF ~InVector(prog.m_program, pc) THEN Undefined(v0, t, ub)
        ELSE LET opcode == At(prog.m_program, pc)
             IN  CASE opcode = ops_run -> eval_run(prog, v0, t, ub)
                   [] opcode = ops_run_thr ->
                        IF ~InVector(prog.m_program, pc + 1)
                        THEN Undefined(v0, t, ub)
                        ELSE LET other == At(prog.m_program, pc + 1)
                             IN  IF ~InVector(v0.m_threads, other)
                                 THEN Undefined(v0, t, ub)
                                 ELSE IF other \in active \cup {t}
                                 THEN Ret("Crash", v0)
                                 ELSE run_thr_after(
                                          eval(prog, v0, other, ub,
                                               active \cup {t}),
                                          other, t)
                   [] opcode = ops_run_dec -> eval_run_dec(prog, v0, t, ub)
                   [] opcode = ops_bra_f ->
                        eval_bra("Failure", prog, v0, t, ub)
                   [] opcode = ops_bra_t ->
                        eval_bra("Success", prog, v0, t, ub)
                   [] opcode = ops_set_f -> eval_set("Failure", v0, t)
                   [] opcode = ops_set_t -> eval_set("Success", v0, t)
                   [] opcode = ops_neg -> eval_neg(v0, t)
                   [] opcode = ops_chk_fact -> eval_chk_fact(prog, v0, t, ub)
                   [] opcode = ops_rm_fact -> eval_rm_fact(prog, v0, t, ub)
                   [] OTHER -> eval_default(v0, t)

\* BehaviorTreeVMThread::step, on a vm that is not null
step(prog, vst, t, ub) == eval(prog, vst, t, ub, {})

----------------------------------------------------------------------------
(* Utility selection (src/src/ofxUtilityAI.{h,cpp}) *)

\* a float: a number, or not-a-number, which compares false with everything
Float(v) == [nan |-> FALSE, v |-> v]

NaN == [nan |-> TRUE, v |-> 0]

\* operator> , operator< and operator+ on floats
Greater(a, b) == ~a.nan /\ ~b.nan /\ a.v > b.v

Less(a, b) == ~a.nan /\ ~b.nan /\ a.v < b.v

Plus(a, b) == IF a.nan \/ b.nan THEN NaN ELSE Float(a.v + b.v)

\* struct Scorer, its two callables given by the values they return
Scorer(score, condition) == [score |-> score, condition |-> condition]

\* struct Qualifier
Qualifier(type, threshold, scorers) ==
    [type |-> type, threshold |-> threshold, scorers |-> scorers]

\* the loops of Qualifier::score from the scorer i on, sum so far given
RECURSIVE ScoreLoop(_, _, _)
ScoreLoop(q, i, sum) ==
    IF i > Len(q.scorers) THEN sum
    ELSE LET scorer == q.scorers[i]
         IN  CASE q.type = "AllOrNothing" ->
                    IF ~scorer.condition THEN Float(0)
                    ELSE ScoreLoop(q, i + 1, Plus(sum, scorer.score))
               [] q.type = "SumOfChildren" ->
                    IF scorer.condition
                    THEN ScoreLoop(q, i + 1, Plus(sum, scorer.score))
                    ELSE ScoreLoop(q, i + 1, sum)
               [] q.type = "SumWhileAboveThreshold" ->
                    IF scorer.condition
                    THEN IF Less(scorer.score, q.threshold) THEN sum
                         ELSE ScoreLoop(q, i + 1, Plus(sum, scorer.score))
                    ELSE ScoreLoop(q, i + 1, sum)

\* Qualifier::score
Qualifier_score(q) ==
    IF q.type \in {"DefaultAction", "FixedScore"} THEN q.threshold
    ELSE IF q.type \in {"AllOrNothing", "SumOfChildren",
                        "SumWhileAboveThreshold"}
    THEN ScoreLoop(q, 1, Float(0))
    ELSE Float(0)

\* Qualifier::DefaultAction paired with the action, as Selector's
\* constructors make it
DefaultPair(action) ==
    [first |-> Qualifier("DefaultAction", Float(0), <<>>), second |-> action]

\* the loop of Selector::eval taking a later pair on an equal score too
ChooseLoop_lastWins(pairs, i, chosen, currentScore) ==
    LET RECURSIVE Loop(_, _, _)
        Loop(k, c, score) ==
            IF k > Len(pairs) THEN c
            ELSE IF ~Less(Qualifier_score(pairs[k].first), score)
            THEN Loop(k + 1, pairs[k], Qualifier_score(pairs[k].first))
            ELSE Loop(k + 1, c, score)
    IN  Loop(i, chosen, currentScore)

\* the loop of Selector::eval from the pair i on: the pair chosen
ChooseLoop(pairs, i, chosen, currentScore) ==
    LET RECURSIVE Loop(_, _, _)
        Loop(k, c, score) ==
            IF k > Len(pairs) THEN c
            ELSE IF Greater(Qualifier_score(pairs[k].first), score)
            THEN Loop(k + 1, pairs[k], Qualifier_score(pairs[k].first))
            ELSE Loop(k + 1, c, score)
    IN  Loop(i, chosen, currentScore)

\* Selector::eval: the action it invokes
Selector_eval(pairs, default) ==
    ChooseLoop(pairs, 1, default, default.first.threshold).second

----------------------------------------------------------------------------
(* Inputs *)

Scripts == SeqsUpTo(Status, MaxScript) \ {<<>>}

\* a child of a composite: a leaf that always returns the given outcome, or
\* a descriptor of a kind the registry does not know, which compiles to an
\* absent child
ChildCodes == Status \cup {"Absent"}

ChildDesc(i, code) ==
    IF code = "Absent" THEN FirstReturn(<<>>)
    ELSE NodeLeaf(Callable(i, <<code>>))

Children(codes) == [i \in 1..Len(codes) |-> ChildDesc(i, codes[i])]

ChildLists == SeqsUpTo(ChildCodes, MaxChildren)

Build(builder, node) == [builder |-> builder, node |-> node]

CompositeBuilds ==
    UNION {{Build("Sequence", Sequence(Children(codes))),
            Build("Selector", Selector(Children(codes))),
            Build("UntilTrue", UntilTrue(Children(codes))),
            Build("UntilFalse", UntilFalse(Children(codes))),
            Build("Parallel(children)", ParallelChildren(Children(codes)))}
           : codes \in ChildLists}

ParallelBuilds ==
    UNION {{Build("Parallel(threshold, children)",
                  ParallelThreshold(t, Children(codes))),
            Build("Parallel(successThreshold, failureThreshold, children)",
                  ParallelFull(t, 1, Children(codes)))}
           : <<t, codes>> \in
               {tc \in (0..MaxChildren) \X ChildLists : tc[1] <= Len(tc[2])}}

DecoratedDescs ==
    {NodeLeaf(Callable(1, script)) : script \in Scripts}
        \cup {FirstReturn(<<>>)}

DecoratorBuilds ==
    UNION {{Build("ReturnTrue", ReturnTrue(c)),
            Build("ReturnFalse", ReturnFalse(c)),
            Build("Negate", Negate(c)),
            Build("Negate", Negate(Negate(c))),
            Build("Node(decorator, child)",
                  NodeDecorator(Callable(2, <<"Success">>), c))}
           : c \in DecoratedDescs}

TreeBuilds == CompositeBuilds \cup ParallelBuilds \cup DecoratorBuilds

\* nodes that no descriptor compiles to, built by their constructors
DirectRoots ==
    {RepeatDecoratorNode(n, c) :
        n \in 0..MaxLoop,
        c \in {Null} \cup {LeafNode(Callable(1, script), <<>>) :
                              script \in Scripts}}

FactNames == {<<"x">>, <<"y">>}

FactValues == {<<"y">>, <<"z">>}

ScopeVars == {<<"x">>}

Markers == SeqsUpTo({"#", "@"}, MaxMarkers)

\* parameter strings: a name behind up to MaxMarkers markers, or nothing
Tokens == {m \o n : m \in Markers, n \in FactNames} \cup {<<>>}

PlainTokens == FactNames \cup {<<"@", "x">>, <<"#", "x">>}

Frames == UNION {[V -> FactValues] : V \in SUBSET ScopeVars}

FactBuilds ==
    {Build("FactExists", FactExists(t)) : t \in Tokens}
      \cup {Build("RemoveFact", RemoveFact(t)) : t \in Tokens}
      \cup {Build("SetFactConst", SetFactConst(t, u)) :
               t \in Tokens, u \in PlainTokens}
      \cup {Build("FactEqualsConst", FactEqualsConst(t, u)) :
               t \in Tokens, u \in PlainTokens}

\* fact values and scope values that are themselves marked tokens
RefValues == {<<"z">>, <<"@", "y">>}

RefDicts == UNION {[D -> RefValues] : D \in SUBSET FactNames}

RefFrames == UNION {[V -> {<<"y">>, <<"@", "y">>}] : V \in SUBSET ScopeVars}

RefStacks == SeqsUpTo(RefFrames, MaxScopes)

\* one operand runs over every token, the other is a plain name
RefOperands == (Tokens \X {<<"z">>}) \cup ({<<"y">>} \X Tokens)

\* descriptors of kinds that createNode does not know, none of them
\* wrapping a callable itself
UnknownBuilds ==
    {Build("FirstReturn", FirstReturn(<<>>)),
     Build("AlwaysRun",
           AlwaysRun(<<SetFactConst(<<"x">>, <<"z">>)>>)),
     Build("Strategy",
           Strategy(NodeLeaf(Callable(1, <<"Success">>)),
                    NodeLeaf(Callable(2, <<"Success">>))))}

RefBuilds ==
    {Build("SetFactConst", SetFactConst(tu[1], tu[2])) : tu \in RefOperands}
      \cup {Build("FactEqualsConst", FactEqualsConst(tu[1], tu[2])) :
               tu \in RefOperands}
      \cup UnknownBuilds

\* what a parameter of a Scope node may be configured to
ScopeTokens == {<<"y">>, <<"#", "x">>, <<"@", "y">>}

ScopeParamMaps == UNION {[K -> ScopeTokens] : K \in SUBSET FactNames}

\* the child of a Scope node: none, a host callable that returns one outcome
\* or throws, or a node that stores what "#x" resolves to as the fact x
ScopeBodies ==
    {Null}
      \cup {LeafNode(Callable(1, <<o>>), <<>>) : o \in Status \cup {Thrown}}
      \cup {SetFactConstNode(<<"x">>, <<"#", "x">>)}

\* an inner Scope node redefines x only
InnerParamMaps == {q \in ScopeParamMaps : DOMAIN q = {<<"x">>}}

\* Scope nodes, also one inside another, given by their fields
ScopeRoots ==
    {ScopeNode(p, c) :
        p \in ScopeParamMaps,
        c \in ScopeBodies
                \cup {ScopeNode(q, b) : q \in InnerParamMaps, b \in ScopeBodies}}

\* what the action of a strategy returns, tick after tick
ActionScripts ==
    {<<o>> : o \in Status}
      \cup {<<"Running", "Success">>, <<"Running", "Running", "Failure">>}

\* strategy i: a condition that always returns conds[i] and an action that
\* follows the script; every callable is a host function of its own
Strategies(conds, script) ==
    [i \in 1..Len(conds) |->
        StrategyNode(LeafNode(Callable(2 * i - 1, <<conds[i]>>), <<>>),
                     LeafNode(Callable(2 * i, script), <<>>))]

\* Decision nodes, given by their fields
DecisionRoots ==
    {DecisionNode(Strategies(conds, script)) :
        conds \in SeqsUpTo(Status, MaxChildren), script \in ActionScripts}

\* a leaf whose callable i always returns o
LeafAt(i, o) == LeafNode(Callable(i, <<o>>), <<>>)

LeavesAt(i) == {LeafAt(i, o) : o \in Status}

Composites(children) ==
    {SequenceNode(children), SelectorNode(children),
     RepeatWhileSuccessfulNode(children), RepeatWhileFailureNode(children)}

Decorated(child) ==
    {TrueDecoratorNode(child), FalseDecoratorNode(child),
     NegateDecoratorNode(child), RepeatDecoratorNode(2, child)}

\* a leaf, or a node over one or two leaves, with the callables b+1 and b+2
InnerAt(b) ==
    LeavesAt(b + 1)
      \cup UNION {Composites(<<a>>) \cup Decorated(a) : a \in LeavesAt(b + 1)}
      \cup UNION {Composites(<<a, c>>) :
                     a \in LeavesAt(b + 1), c \in LeavesAt(b + 2)}

\* trees of two levels below the root, given by their constructors
NestedRoots ==
    UNION {Composites(<<a>>) \cup Decorated(a) : a \in InnerAt(0)}
      \cup UNION {Composites(<<a, c>>) : a \in InnerAt(0), c \in LeavesAt(3)}
      \cup UNION {Composites(<<a, c>>) : a \in LeavesAt(1), c \in InnerAt(2)}
      \cup {DecisionNode(<<StrategyNode(a, c)>>) :
               a \in InnerAt(0), c \in LeavesAt(3)}
      \cup {DecisionNode(<<StrategyNode(a, c)>>) :
               a \in LeavesAt(1), c \in InnerAt(2)}

\* VM programs: a main stream of three instructions for thread 0, then a
\* stream of two instructions for thread 1
VMOpening ==
    {<<ops_run, 0>>, <<ops_run_dec, 0>>, <<ops_run_thr, 1>>, <<ops_set_f>>,
     <<ops_set_t>>, <<ops_chk_fact, 0>>, <<ops_rm_fact, 0>>}

VMInstructions ==
    VMOpening \cup
    {<<ops_run, 1>>, <<ops_run_dec, 1>>, <<ops_run_thr, 0>>,
     <<ops_bra_f, 4>>, <<ops_bra_t, 4>>, <<ops_neg>>, <<ops_dbg_break>>,
     <<ops_log>>, <<ops_log + 1>>}

VMSubroutines == {<<ops_run, 0>>, <<ops_set_t>>, <<ops_dbg_break>>}

VMMains ==
    {i1 \o i2 \o <<ops_run, 1>> : i1 \in VMOpening, i2 \in VMInstructions}

VMLeaves ==
    {<<Callable(1, <<o>>), Callable(2, <<"Success">>)>> : o \in VMStatus}

VMDecorators == <<Callable(3, <<"Failure">>), Callable(4, <<"Running">>)>>

VMStrings == <<<<"x">>, <<"y">>, <<"z">>>>

VMBoards == {[n \in {name} |-> <<"1">>] : name \in {<<"x">>, <<"y">>}}

\* stores in which the fact x names itself, plainly or behind a marker, and
\* frames whose value leads back to a scope variable
SelfDicts ==
    {[n \in D |-> IF n = <<"x">> THEN v ELSE <<"z">>] :
        D \in SUBSET FactNames,
        v \in {<<"x">>, <<"@", "x">>, <<"#", "x">>, <<"y">>}}

LoopFrames ==
    UNION {[V -> {<<"@", "x">>, <<"#", "x">>, <<"@", "#", "x">>}] :
             V \in SUBSET ScopeVars}

LoopStacks == SeqsUpTo(LoopFrames, MaxScopes)

ResolveRoots == {FactEqualsConstantNode(t, <<"z">>) : t \in Tokens}

\* qualifiers of every type, with scores below, at and above the threshold
\* of the default action, equal scores, and a score that is not a number
QualifierPool ==
    {Qualifier("FixedScore", Float(-1), <<>>),
     Qualifier("FixedScore", Float(0), <<>>),
     Qualifier("FixedScore", Float(1), <<>>),
     Qualifier("FixedScore", Float(2), <<>>),
     Qualifier("FixedScore", NaN, <<>>),
     Qualifier("AllOrNothing", Float(0),
               <<Scorer(Float(1), TRUE), Scorer(Float(1), TRUE)>>),
     Qualifier("AllOrNothing", Float(0),
               <<Scorer(Float(2), TRUE), Scorer(Float(1), FALSE)>>),
     Qualifier("SumOfChildren", Float(0),
               <<Scorer(Float(1), TRUE), Scorer(Float(2), FALSE)>>),
     Qualifier("SumWhileAboveThreshold", Float(2),
               <<Scorer(Float(2), TRUE), Scorer(Float(1), TRUE),
                 Scorer(Float(2), TRUE)>>)}

\* the action of the pair k is the callable k, the default action is 0
Selectors ==
    {[k \in 1..Len(qs) |-> [first |-> qs[k], second |-> k]] :
        qs \in SeqsUpTo(QualifierPool, MaxQualifiers)}

----------------------------------------------------------------------------
(* Operations *)

NoCalls == [i \in LeafIds |-> 0]

\* no Selector has been made
NoSelector ==
    /\ qualifiers = <<>>
    /\ defaultAction = DefaultPair(0)

\* no BehaviorTreeVM has been made
NoVM ==
    /\ m_program = NoProgram
    /\ m_threads = <<>>
    /\ blackboard = EmptyDict
    /\ stepped = 0

\* Tree::Tree(): no root, a fresh DictBlackboard, no scope
InitTree ==
    /\ m_root = Null
    /\ m_dict = EmptyDict
    /\ m_scopeStack = <<>>
    /\ pos = NoCalls
    /\ result = "None"
    /\ log = <<>>
    /\ steps = 0
    /\ op = "Tree"
    /\ built = "none"
    /\ NoVM
    /\ NoSelector
    /\ m_current = 0

\* a Tree() whose root is unset or was built by a node constructor
Init ==
    /\ m_root \in {Null} \cup DirectRoots
    /\ m_dict = EmptyDict
    /\ m_scopeStack = <<>>
    /\ pos = NoCalls
    /\ result = "None"
    /\ log = <<>>
    /\ steps = 0
    /\ op = "Tree"
    /\ built = "none"
    /\ NoVM
    /\ NoSelector
    /\ m_current = 0

\* a Tree() whose blackboard and scope stack the host has filled through
\* getBlackboard()->setFact and pushScope
InitRefs ==
    /\ m_root = Null
    /\ m_dict \in RefDicts
    /\ m_scopeStack \in RefStacks
    /\ pos = NoCalls
    /\ result = "None"
    /\ log = <<>>
    /\ steps = 0
    /\ op = "Tree"
    /\ built = "none"
    /\ NoVM
    /\ NoSelector
    /\ m_current = 0

\* a Tree() over a Scope node, with the fact y stored or not and a frame
\* that holds x pushed by the host or not
InitScope ==
    /\ m_root \in ScopeRoots
    /\ m_dict \in {EmptyDict, [n \in {<<"y">>} |-> <<"z">>]}
    /\ m_scopeStack \in {<<>>, <<NodeScope([v \in {<<"x">>} |-> <<"y">>])>>}
    /\ pos = NoCalls
    /\ result = "None"
    /\ log = <<>>
    /\ steps = 0
    /\ op = "Tree"
    /\ built = "none"
    /\ NoVM
    /\ NoSelector
    /\ m_current = 0

\* a Tree() over a Decision node whose constructor has just run
InitDecision ==
    /\ m_root \in DecisionRoots
    /\ m_current \in Latches(m_root)
    /\ m_dict = EmptyDict
    /\ m_scopeStack = <<>>
    /\ pos = NoCalls
    /\ result = "None"
    /\ log = <<>>
    /\ steps = 0
    /\ op = "Tree"
    /\ built = "none"
    /\ NoVM
    /\ NoSelector

\* a Tree() over a tree of nodes whose constructors have just run
InitNested ==
    /\ m_root \in NestedRoots
    /\ m_current \in Latches(m_root)
    /\ m_dict = EmptyDict
    /\ m_scopeStack = <<>>
    /\ pos = NoCalls
    /\ result = "None"
    /\ log = <<>>
    /\ steps = 0
    /\ op = "Tree"
    /\ built = "none"
    /\ NoVM
    /\ NoSelector

\* Tree::loadTree on a tree that has no root yet, as Tree::Tree(const Node&)
\* calls it; the descriptor's callables are fresh
loadTree(builds) ==
    /\ steps = 0
    /\ m_root = Null
    /\ \E b \in builds :
         /\ m_root' = createNode(b.node)
         /\ built' = b.builder
         /\ m_current' \in Latches(createNode(b.node))
         /\ result' = IF createNode(b.node) = Null THEN "false" ELSE "true"
    /\ pos' = NoCalls
    /\ log' = <<>>
    /\ steps' = steps + 1
    /\ op' = "loadTree"
    /\ UNCHANGED <<m_dict, m_scopeStack>>
    /\ UNCHANGED vmVars
    /\ UNCHANGED utilityVars

LoadTree == loadTree(TreeBuilds)

LoadFactTree == loadTree(FactBuilds)

LoadRefTree == loadTree(RefBuilds)

\* Tree::tick, called by the host once per control cycle
TreeTick ==
    /\ steps < MaxSteps
    /\ result # "Crash"
    /\ \E ub \in UBOutcomes :
         LET st == [pos |-> pos, log |-> <<>>, m_dict |-> m_dict,
                    m_scopeStack |-> m_scopeStack, m_current |-> m_current]
             r == Tree_tick(m_root, st, ub)
         IN  /\ result' = r.status
             /\ log' = r.st.log
             /\ pos' = r.st.pos
             /\ m_dict' = r.st.m_dict
             /\ m_scopeStack' = r.st.m_scopeStack
             /\ m_current' = r.st.m_current
    /\ steps' = steps + 1
    /\ op' = "tick"
    /\ UNCHANGED <<m_root, built>>
    /\ UNCHANGED vmVars
    /\ UNCHANGED utilityVars

\* the host writes a fact through Tree::getBlackboard()
HostSetFact ==
    /\ result # "Crash"
    /\ \E n \in FactNames, v \in FactValues : m_dict' = setFact(m_dict, n, v)
    /\ result' = "None"
    /\ log' = <<>>
    /\ op' = "host"
    /\ UNCHANGED <<m_root, m_scopeStack, pos, steps, built, m_current>>
    /\ UNCHANGED vmVars
    /\ UNCHANGED utilityVars

\* the host removes a fact through Tree::getBlackboard()
HostRemoveFact ==
    /\ result # "Crash"
    /\ \E n \in FactNames : m_dict' = removeFact(m_dict, n)
    /\ result' = "None"
    /\ log' = <<>>
    /\ op' = "host"
    /\ UNCHANGED <<m_root, m_scopeStack, pos, steps, built, m_current>>
    /\ UNCHANGED vmVars
    /\ UNCHANGED utilityVars

\* the host calls Tree::pushScope
HostPushScope ==
    /\ result # "Crash"
    /\ Len(m_scopeStack) < MaxScopes
    /\ \E f \in Frames : m_scopeStack' = pushScope(m_scopeStack, f)
    /\ result' = "None"
    /\ log' = <<>>
    /\ op' = "host"
    /\ UNCHANGED <<m_root, m_dict, pos, steps, built, m_current>>
    /\ UNCHANGED vmVars
    /\ UNCHANGED utilityVars

\* the host calls Tree::popScope, on a stack that has a frame
HostPopScope ==
    /\ result # "Crash"
    /\ m_scopeStack # <<>>
    /\ m_scopeStack' = popScope(m_scopeStack)
    /\ result' = "None"
    /\ log' = <<>>
    /\ op' = "host"
    /\ UNCHANGED <<m_root, m_dict, pos, steps, built, m_current>>
    /\ UNCHANGED vmVars
    /\ UNCHANGED utilityVars

\* a BehaviorTreeVM over a program, its threads reset, and no Tree in use
InitVM ==
    /\ m_root = Null
    /\ m_dict = EmptyDict
    /\ m_scopeStack = <<>>
    /\ m_current = 0
    /\ built = "none"
    /\ pos = NoCalls
    /\ result = "None"
    /\ log = <<>>
    /\ steps = 0
    /\ op = "BehaviorTreeVM"
    /\ NoSelector
    /\ \E main \in VMMains, sub \in VMSubroutines, leaves \in VMLeaves :
          /\ m_program =
                BehaviorTreeVMProgram(main \o sub \o <<ops_set_f>>, leaves,
                                      VMDecorators, VMStrings)
          /\ m_threads =
                <<reset(BehaviorTreeVMThread(0, 0, "Invalid")),
                  reset(BehaviorTreeVMThread(0, Len(main), "Invalid"))>>
    /\ blackboard \in VMBoards
    /\ stepped = 0

\* the host calls m_threads[t].step(vm)
ThreadStep ==
    /\ steps < MaxSteps
    /\ result # "Crash"
    /\ \E t \in 0..(Len(m_threads) - 1), ub \in VMUBOutcomes :
          LET r == step(m_program,
                        [m_threads |-> m_threads, blackboard |-> blackboard,
                         pos |-> pos, log |-> <<>>],
                        t, ub)
          IN  /\ result' = r.status
              /\ m_threads' = r.st.m_threads
              /\ blackboard' = r.st.blackboard
              /\ pos' = r.st.pos
              /\ log' = r.st.log
              /\ stepped' = t
    /\ steps' = steps + 1
    /\ op' = "step"
    /\ UNCHANGED <<m_root, m_dict, m_scopeStack, built, m_current, m_program>>
    /\ UNCHANGED utilityVars

\* the host calls m_threads[t].reset()
ThreadReset ==
    /\ result # "Crash"
    /\ op = "step"
    /\ steps < MaxSteps
    /\ \E t \in 0..(Len(m_threads) - 1) :
          /\ m_threads' = [m_threads EXCEPT ![t + 1] = reset(@)]
          /\ stepped' = t
    /\ result' = "None"
    /\ log' = <<>>
    /\ op' = "reset"
    /\ steps' = steps + 1
    /\ UNCHANGED <<m_root, m_dict, m_scopeStack, built, m_current, m_program,
                   blackboard, pos>>
    /\ UNCHANGED utilityVars

\* a Tree whose root, a fact node built by its constructor, resolves a token
\* against a store and a scope stack that hold references to themselves
InitResolve ==
    /\ m_root \in ResolveRoots
    /\ m_dict \in SelfDicts
    /\ m_scopeStack \in LoopStacks
    /\ pos = NoCalls
    /\ result = "None"
    /\ log = <<>>
    /\ steps = 0
    /\ op = "Tree"
    /\ built = "none"
    /\ NoVM
    /\ NoSelector
    /\ m_current = 0

\* Selector::Selector(qualifiers, action), and no Tree or VM in use
InitUtility ==
    /\ m_root = Null
    /\ m_dict = EmptyDict
    /\ m_scopeStack = <<>>
    /\ m_current = 0
    /\ built = "none"
    /\ pos = NoCalls
    /\ result = "None"
    /\ log = <<>>
    /\ steps = 0
    /\ op = "Selector"
    /\ NoVM
    /\ qualifiers \in Selectors
    /\ defaultAction = DefaultPair(0)

\* the host calls Selector::eval
SelectorEval ==
    /\ steps < MaxSteps
    /\ log' = <<Selector_eval(qualifiers, defaultAction)>>
    /\ steps' = steps + 1
    /\ op' = "eval"
    /\ UNCHANGED <<m_root, m_dict, m_scopeStack, built, m_current, pos,
                   result>>
    /\ UNCHANGED vmVars
    /\ UNCHANGED utilityVars

Next == LoadTree \/ TreeTick

Spec == Init /\ [][Next]_vars

NextFacts ==
    \/ LoadFactTree
    \/ TreeTick
    \/ HostSetFact
    \/ HostRemoveFact
    \/ HostPushScope
    \/ HostPopScope

SpecFacts == InitTree /\ [][NextFacts]_vars

NextRefs == LoadRefTree \/ TreeTick

SpecRefs == InitRefs /\ [][NextRefs]_vars

NextScope == TreeTick

SpecScope == InitScope /\ [][NextScope]_vars

NextDecision == TreeTick

SpecDecision == InitDecision /\ [][NextDecision]_vars

NextNested == TreeTick

SpecNested == InitNested /\ [][NextNested]_vars

NextResolve == TreeTick

SpecResolve == InitResolve /\ [][NextResolve]_vars

NextUtility == SelectorEval

SpecUtility == InitUtility /\ [][NextUtility]_vars

NextVM == ThreadStep \/ ThreadReset

SpecVM == InitVM /\ [][NextVM]_vars

----------------------------------------------------------------------------
(* Properties *)

\* the outcome of a child that is a leaf returning one fixed outcome
LeafOut(c) == c.m_tick.script[1]

Present(c) == c.kind = "LeafNode"

\* position of the first child that is absent or whose outcome is not cont;
\* one past the end when there is none
FirstStop(cs, cont) ==
    LET S == {k \in 1..Len(cs) : ~Present(cs[k]) \/ LeafOut(cs[k]) # cont}
    IN  IF S = {} THEN Len(cs) + 1
        ELSE CHOOSE k \in S : \A j \in S : k <= j

\* the callables of the children 1..n, in declaration order
IdsUpTo(cs, n) == [k \in 1..n |-> cs[k].m_tick.id]

CountOf(cs, o) == Cardinality({k \in 1..Len(cs) : LeafOut(cs[k]) = o})

\* a composite over at least one child was ticked and the scan met no
\* absent child before it ended
ScanApplies(kind, cont) ==
    /\ op = "tick"
    /\ m_root.kind = kind
    /\ m_root.m_children # <<>>
    /\ LET stop == FirstStop(m_root.m_children, cont)
       IN  stop <= Len(m_root.m_children) => Present(m_root.m_children[stop])

\* the scan ticked the children in order up to the first whose outcome is
\* not cont and returned that outcome, or atEnd when there is none
ScanResult(cont, atEnd) ==
    LET cs == m_root.m_children
        stop == FirstStop(cs, cont)
    IN  /\ log = IdsUpTo(cs, Min(stop, Len(cs)))
        /\ result = IF stop > Len(cs) THEN atEnd ELSE LeafOut(cs[stop])

\* C1: a Sequence over present children ticks them in declaration order,
\* returns Success when all return Success, and otherwise returns the outcome
\* of the first child that does not return Success, ticking no later child.
C1_SequenceTick ==
    ScanApplies("SequenceNode", "Success") => ScanResult("Success", "Success")

C1_Witness ==
    /\ ScanApplies("SequenceNode", "Success")
    /\ Len(m_root.m_children) = 3
    /\ FirstStop(m_root.m_children, "Success") = 2
    /\ result = "Failure"
    /\ log = <<1, 2>>

\* C2: a Selector over a non-empty list of children that all return Failure
\* ticks every child in order and returns Failure.
C2_SelectorAllFail ==
    (/\ op = "tick"
     /\ m_root.kind = "SelectorNode"
     /\ m_root.m_children # <<>>
     /\ \A k \in 1..Len(m_root.m_children) :
          /\ Present(m_root.m_children[k])
          /\ LeafOut(m_root.m_children[k]) = "Failure")
    => /\ log = IdsUpTo(m_root.m_children, Len(m_root.m_children))
       /\ result = "Failure"

\* C3: a Parallel ticks every child in each tick, and when no child returns
\* Invalid it returns Success if the successes reach the threshold, else
\* Failure if the failures exceed child-count minus threshold, else Running.
C3_ParallelTick ==
    (/\ op = "tick"
     /\ m_root.kind = "ParallelNode"
     /\ m_root.m_children # <<>>
     /\ \A k \in 1..Len(m_root.m_children) : Present(m_root.m_children[k]))
    => LET cs == m_root.m_children
       IN  /\ log = IdsUpTo(cs, Len(cs))
           /\ CountOf(cs, "Invalid") = 0 =>
                result =
                  IF CountOf(cs, "Success") >= m_root.m_threshold
                  THEN "Success"
                  ELSE IF CountOf(cs, "Failure") >
                            Len(cs) - m_root.m_threshold
                  THEN "Failure"
                  ELSE "Running"

\* C4: a Parallel built by the builder that takes no threshold is compiled
\* to a node whose success threshold is the number of children minus one.
C4_DefaultThreshold ==
    (/\ m_root.kind = "ParallelNode"
     /\ built = "Parallel(children)"
     /\ Len(m_root.m_children) >= 1
     /\ \A k \in 1..Len(m_root.m_children) : Present(m_root.m_children[k]))
    => m_root.m_threshold = Len(m_root.m_children) - 1

CompositeKinds ==
    {"SequenceNode", "SelectorNode", "ParallelNode",
     "RepeatWhileSuccessfulNode", "RepeatWhileFailureNode"}

\* C5: a composite whose child list is empty or holds an absent child
\* returns Invalid, wherever the absent child is and whatever the other
\* children return.
C5_MalformedComposite ==
    (/\ op = "tick"
     /\ m_root.kind \in CompositeKinds
     /\ \/ m_root.m_children = <<>>
        \/ \E k \in 1..Len(m_root.m_children) : ~Present(m_root.m_children[k]))
    => result = "Invalid"

\* C6: repeat-while-successful (repeat-while-failure) over present children
\* ticks them in order, returns the outcome of the first child that does not
\* return Success (Failure) without ticking later children, returns Running
\* when the pass completes, and never returns Success (Failure).
C6_RepeatWhile ==
    /\ ScanApplies("RepeatWhileSuccessfulNode", "Success")
         => ScanResult("Success", "Running")
    /\ ScanApplies("RepeatWhileFailureNode", "Failure")
         => ScanResult("Failure", "Running")
    /\ (op = "tick" /\ m_root.kind = "RepeatWhileSuccessfulNode")
         => result # "Success"
    /\ (op = "tick" /\ m_root.kind = "RepeatWhileFailureNode")
         => result # "Failure"

C6_Witness ==
    /\ ScanApplies("RepeatWhileSuccessfulNode", "Success")
    /\ Len(m_root.m_children) = 3
    /\ FirstStop(m_root.m_children, "Success") = 4
    /\ result = "Running"
    /\ log = <<1, 2, 3>>

\* the single child of the root is a leaf
ChildIsLeaf == m_root.m_child.kind = "LeafNode"

\* what the leaf child of the root returns at its next invocation
NextChildOutcome ==
    Outcome(m_root.m_child.m_tick, pos[m_root.m_child.m_tick.id])

\* C7: Return-True (Return-False) ticks its child exactly once, returns
\* Success (Failure) when the child returns Success or Failure, and returns
\* the child's outcome when that is Running or Invalid.
C7_ReturnFixed ==
    [][(/\ op' = "tick"
        /\ m_root.kind \in {"TrueDecoratorNode", "FalseDecoratorNode"}
        /\ ChildIsLeaf)
       => /\ log' = <<m_root.m_child.m_tick.id>>
          /\ result' =
               IF NextChildOutcome \in {"Success", "Failure"}
               THEN IF m_root.kind = "TrueDecoratorNode"
                    THEN "Success" ELSE "Failure"
               ELSE NextChildOutcome]_vars

C7_Witness ==
    /\ op = "tick"
    /\ m_root.kind = "TrueDecoratorNode"
    /\ ChildIsLeaf
    /\ m_root.m_child.m_tick.script = <<"Failure">>
    /\ result = "Success"
    /\ log = <<1>>

Swapped(o) ==
    IF o = "Success" THEN "Failure"
    ELSE IF o = "Failure" THEN "Success"
    ELSE o

\* C8: Negate swaps Success and Failure and passes Running and Invalid
\* through; Negate(Negate(X)) returns X's outcome and ticks X exactly once.
C8_DoubleNegate ==
    [][/\ (/\ op' = "tick"
           /\ m_root.kind = "NegateDecoratorNode"
           /\ ChildIsLeaf)
          => /\ log' = <<m_root.m_child.m_tick.id>>
             /\ result' = Swapped(NextChildOutcome)
       /\ (/\ op' = "tick"
           /\ m_root.kind = "NegateDecoratorNode"
           /\ m_root.m_child.kind = "NegateDecoratorNode"
           /\ m_root.m_child.m_child.kind = "LeafNode")
          => LET x == m_root.m_child.m_child.m_tick
             IN  /\ log' = <<x.id>>
                 /\ result' = Outcome(x, pos[x.id])]_vars

C8_Witness ==
    /\ op = "tick"
    /\ m_root.kind = "NegateDecoratorNode"
    /\ m_root.m_child.kind = "NegateDecoratorNode"
    /\ m_root.m_child.m_child.kind = "LeafNode"
    /\ m_root.m_child.m_child.m_tick.script = <<"Failure">>
    /\ result = "Failure"
    /\ log = <<1>>

\* the outcome of the j-th tick that a Repeat root makes of its leaf child
RepeatOutcome(j) ==
    Outcome(m_root.m_child.m_tick, pos[m_root.m_child.m_tick.id] + j - 1)

\* the tick at which a Repeat root stops: the first that yields Running or
\* Invalid, or the last of the count
RepeatStop ==
    LET S == {j \in 1..m_root.m_loopCount :
                 RepeatOutcome(j) \in {"Running", "Invalid"}}
    IN  IF S = {} THEN m_root.m_loopCount
        ELSE CHOOSE j \in S : \A i \in S : j <= i

\* C9: Repeat(count) ticks its child at most count times in one tick: it
\* stops at the first child outcome that is Running or Invalid and returns
\* it; otherwise it ticks the child exactly count times and returns the
\* outcome of the last tick.
C9_Repeat ==
    [][(/\ op' = "tick"
        /\ m_root.kind = "RepeatDecoratorNode"
        /\ ChildIsLeaf)
       => /\ Len(log') <= m_root.m_loopCount
          /\ \A k \in 1..Len(log') : log'[k] = m_root.m_child.m_tick.id
          /\ m_root.m_loopCount >= 1 =>
                /\ Len(log') = RepeatStop
                /\ result' = RepeatOutcome(RepeatStop)]_vars

C9_Witness ==
    /\ op = "tick"
    /\ steps = 1
    /\ m_root.kind = "RepeatDecoratorNode"
    /\ m_root.m_loopCount = 3
    /\ ChildIsLeaf
    /\ m_root.m_child.m_tick.script = <<"Success", "Success", "Failure">>
    /\ result = "Failure"
    /\ log = <<1, 1, 1>>

\* C10: FactExists resolves its parameter first: for a parameter that starts
\* with '#' or '@' it returns Success iff the fact named by the resolved
\* value is in the store, and Failure otherwise.
C10_FactExistsResolves ==
    (/\ op = "tick"
     /\ m_root.kind = "FactExistsNode"
     /\ m_root.m_factName # <<>>
     /\ Head(m_root.m_factName) \in {"#", "@"})
    => LET r == getFactRef(m_root.m_factName, m_dict, m_scopeStack)
       IN  result = IF r.ok /\ factExists(m_dict, r.result)
                    THEN "Success" ELSE "Failure"

\* the store after is the store before without the fact n
RemovedOnly(n, before, after) ==
    /\ DOMAIN after = DOMAIN before \ {n}
    /\ \A k \in DOMAIN after : after[k] = before[k]

\* C11: RemoveFact always returns Success, and after its tick the fact named
\* by the resolved form of its parameter is absent from the store while
\* every other fact is unchanged.
C11_RemoveFactResolves ==
    [][(/\ op' = "tick"
        /\ m_root.kind = "RemoveFactNode")
       => LET r == getFactRef(m_root.m_factName, m_dict, m_scopeStack)
          IN  /\ result' = "Success"
              /\ r.ok => RemovedOnly(r.result, m_dict, m_dict')]_vars

\* the store after is the store before with the fact n set to v
StoredOnly(n, v, before, after) ==
    /\ DOMAIN after = DOMAIN before \cup {n}
    /\ after[n] = v
    /\ \A k \in DOMAIN before \ {n} : after[k] = before[k]

\* the two operands of a root fact node, resolved in the current state
ResolvedName == getFactRef(m_root.m_factName, m_dict, m_scopeStack)

ResolvedData == getFactRef(m_root.m_factData, m_dict, m_scopeStack)

\* C12: SetFactConstant resolves its name and its value operand; if either
\* resolution fails it returns Invalid and leaves the store unchanged;
\* otherwise it returns Success and the store afterwards maps the resolved
\* name to the resolved value, all other facts unchanged.
C12_SetFactConst ==
    [][(/\ op' = "tick"
        /\ m_root.kind = "SetFactConstNode")
       => IF ~ResolvedName.ok \/ ~ResolvedData.ok
          THEN /\ result' = "Invalid"
               /\ m_dict' = m_dict
          ELSE /\ result' = "Success"
               /\ StoredOnly(ResolvedName.result, ResolvedData.result,
                             m_dict, m_dict')]_vars

C12_Witness ==
    /\ op = "tick"
    /\ m_root = SetFactConstNode(<<"@", "#", "x">>, <<"z">>)
    /\ m_scopeStack # <<>>
    /\ m_scopeStack[Len(m_scopeStack)] = [v \in {<<"x">>} |-> <<"y">>]
    /\ result = "Success"
    /\ DOMAIN m_dict = {<<"y">>, <<"z">>}
    /\ m_dict[<<"y">>] = <<"z">>
    /\ m_dict[<<"z">>] = <<"z">>

\* C13: FactEqualsConstant returns Invalid if resolving either operand fails
\* or the resolved fact name is not in the store; otherwise Success iff the
\* stored value equals the resolved constant, else Failure; the store is
\* never modified.
C13_FactEqualsConst ==
    [][(/\ op' = "tick"
        /\ m_root.kind = "FactEqualsConstantNode")
       => /\ m_dict' = m_dict
          /\ result' =
               IF \/ ~ResolvedName.ok
                  \/ ~ResolvedData.ok
                  \/ ResolvedName.result \notin DOMAIN m_dict
               THEN "Invalid"
               ELSE IF m_dict[ResolvedName.result] = ResolvedData.result
               THEN "Success"
               ELSE "Failure"]_vars

C13_Witness ==
    /\ op = "tick"
    /\ m_root = FactEqualsConstantNode(<<"y">>, <<"@", "x">>)
    /\ <<"x">> \in DOMAIN m_dict
    /\ <<"y">> \in DOMAIN m_dict
    /\ m_dict[<<"x">>] = <<"@", "y">>
    /\ m_dict[<<"y">>] = <<"@", "y">>
    /\ result = "Success"

Fails == [ok |-> FALSE, value |-> <<>>]

\* the resolution protocol: the empty token fails; '#v' looks v up in the top
\* frame and resolves what it finds again; '@t' resolves t to a name and
\* returns the store's value for it as it is; any other token is itself
RECURSIVE Protocol(_, _, _)
Protocol(token, dict, scopeStack) ==
    IF token = <<>> THEN Fails
    ELSE IF Head(token) = "#"
    THEN IF scopeStack = <<>> THEN Fails
         ELSE LET top == scopeStack[Len(scopeStack)]
                  v == Tail(token)
              IN  IF v \notin DOMAIN top THEN Fails
                  ELSE Protocol(top[v], dict, scopeStack)
    ELSE IF Head(token) = "@"
    THEN LET name == Protocol(Tail(token), dict, scopeStack)
         IN  IF ~name.ok \/ name.value \notin DOMAIN dict THEN Fails
             ELSE [ok |-> TRUE, value |-> dict[name.value]]
    ELSE [ok |-> TRUE, value |-> token]

\* C14: getFactRef agrees with the resolution protocol for every token, in
\* every store and scope stack; and "@#x" under the top frame {x: "y"} with
\* the fact y = "z" resolves to "z".
C14_ResolutionProtocol ==
    /\ \A t \in Tokens :
         LET r == getFactRef(t, m_dict, m_scopeStack)
             p == Protocol(t, m_dict, m_scopeStack)
         IN  /\ ~r.diverged
             /\ r.ok = p.ok
             /\ r.ok => r.result = p.value
    /\ LET r == getFactRef(<<"@", "#", "x">>,
                           [n \in {<<"y">>} |-> <<"z">>],
                           <<[v \in {<<"x">>} |-> <<"y">>]>>)
       IN  r.ok /\ r.result = <<"z">>

C14_Witness ==
    /\ op = "tick"
    /\ m_root = FactEqualsConstantNode(<<"y">>, <<"@", "#", "x">>)
    /\ m_scopeStack # <<>>
    /\ m_scopeStack[Len(m_scopeStack)] = [v \in {<<"x">>} |-> <<"y">>]
    /\ DOMAIN m_dict = {<<"y">>}
    /\ m_dict[<<"y">>] = <<"z">>
    /\ result = "Success"

\* a token that is '#v', alone or behind '@' markers
RECURSIVE IsScopeRef(_)
IsScopeRef(token) ==
    /\ token # <<>>
    /\ \/ Head(token) = "#"
       \/ Head(token) = "@" /\ IsScopeRef(Tail(token))

\* the v of such a token
RECURSIVE ScopeVarOf(_)
ScopeVarOf(token) ==
    IF Head(token) = "#" THEN Tail(token) ELSE ScopeVarOf(Tail(token))

\* the token names a scope variable that the top frame does not hold
MissesScope(token) ==
    /\ IsScopeRef(token)
    /\ \/ m_scopeStack = <<>>
       \/ ScopeVarOf(token) \notin DOMAIN m_scopeStack[Len(m_scopeStack)]

\* C15: a node whose operand is a '#v' token, alone or under '@', with v not
\* a key of the top frame or with no frame at all, fails to resolve it and
\* changes nothing; and no resolution, failing or succeeding, changes the
\* scope stack or, by itself, the store.
C15_ScopeMiss ==
    [][(/\ op' = "tick"
        /\ m_root.kind \in {"SetFactConstNode", "FactEqualsConstantNode"})
       => /\ (MissesScope(m_root.m_factName) \/ MissesScope(m_root.m_factData))
             => /\ result' = "Invalid"
                /\ m_dict' = m_dict
          /\ m_scopeStack' = m_scopeStack
          /\ m_root.kind = "FactEqualsConstantNode" => m_dict' = m_dict]_vars

C15_Witness ==
    /\ op = "tick"
    /\ m_root = FactEqualsConstantNode(<<"y">>, <<"@", "#", "x">>)
    /\ Len(m_scopeStack) = 2
    /\ <<"x">> \in DOMAIN m_scopeStack[1]
    /\ <<"x">> \notin DOMAIN m_scopeStack[2]
    /\ <<"y">> \in DOMAIN m_dict
    /\ result = "Invalid"

\* C16: for every tick of a Scope node that returns to the host or leaves by
\* an exception of the child's callable, the depth of the scope stack after
\* the tick equals the depth before it.
C16_ScopeBalance ==
    [][(/\ op' = "tick"
        /\ m_root.kind = "ScopeNode"
        /\ result' # "Crash")
       => Len(m_scopeStack') = Len(m_scopeStack)]_vars

\* some parameter of the root Scope node does not resolve in the current state
ParamFails ==
    \E k \in DOMAIN m_root.m_params :
        ~getFactRef(m_root.m_params[k], m_dict, m_scopeStack).ok

\* what the parameter k of the root Scope node resolves to in the current state
ParamValue(k) == getFactRef(m_root.m_params[k], m_dict, m_scopeStack).result

\* C17: a Scope node with a parameter that fails to resolve returns Invalid,
\* pushes no frame and does not tick its child; otherwise the child runs
\* under a frame of the parameters as resolved against the scope stack
\* before that frame was pushed.
C17_ScopeParams ==
    [][(/\ op' = "tick"
        /\ m_root.kind = "ScopeNode")
       => /\ ParamFails
             => /\ result' = "Invalid"
                /\ log' = <<>>
                /\ pos' = pos
                /\ m_dict' = m_dict
                /\ m_scopeStack' = m_scopeStack
          /\ (~ParamFails /\ m_root.m_child.kind = "SetFactConstNode")
             => /\ m_scopeStack' = m_scopeStack
                /\ IF <<"x">> \in DOMAIN m_root.m_params
                   THEN /\ result' = "Success"
                        /\ StoredOnly(<<"x">>, ParamValue(<<"x">>),
                                      m_dict, m_dict')
                   ELSE /\ result' = "Invalid"
                        /\ m_dict' = m_dict]_vars

C17_Witness ==
    /\ op = "tick"
    /\ m_root.kind = "ScopeNode"
    /\ DOMAIN m_root.m_params = {<<"x">>, <<"y">>}
    /\ m_root.m_params[<<"x">>] = <<"y">>
    /\ m_root.m_params[<<"y">>] = <<"#", "x">>
    /\ m_root.m_child.kind = "LeafNode"
    /\ m_scopeStack = <<>>
    /\ result = "Invalid"
    /\ log = <<>>

\* the callables of strategy i of the root Decision node, and what each
\* returns at its next invocation
CondOf(i) == m_root.m_strategies[i].m_condition.m_tick

ActOf(i) == m_root.m_strategies[i].m_action.m_tick

CondOut(i) == Outcome(CondOf(i), pos[CondOf(i).id])

ActOut(i) == Outcome(ActOf(i), pos[ActOf(i).id])

CondIdsUpTo(n) == [k \in 1..n |-> CondOf(k).id]

\* the first strategy whose condition does not return Failure; one past the
\* end when there is none
ScanStop ==
    LET n == Len(m_root.m_strategies)
        S == {i \in 1..n : CondOut(i) # "Failure"}
    IN  IF S = {} THEN n + 1
        ELSE CHOOSE i \in S : \A j \in S : i <= j

\* a tick of the root Decision node whose m_current points to a strategy
LatchedTick ==
    /\ op' = "tick"
    /\ m_root.kind = "DecisionNode"
    /\ m_current \in 1..Len(m_root.m_strategies)

\* a tick of the root Decision node whose m_current is null
UnlatchedTick ==
    /\ op' = "tick"
    /\ m_root.kind = "DecisionNode"
    /\ m_current = 0

\* C18: while a strategy is latched, a Decision tick ticks only that
\* strategy's action, returns its outcome and clears the latch iff the
\* outcome is not Running, so the latch stays while the action returns
\* Running.
C18_Latched ==
    [][LatchedTick
       => /\ log' = <<ActOf(m_current).id>>
          /\ result' = ActOut(m_current)
          /\ m_current' =
               IF ActOut(m_current) = "Running" THEN m_current ELSE 0]_vars

C18_Witness ==
    /\ op = "tick"
    /\ steps = 3
    /\ m_root =
         DecisionNode(Strategies(<<"Failure", "Success">>,
                                 <<"Running", "Running", "Failure">>))
    /\ log = <<4>>
    /\ pos[4] = 0
    /\ result = "Failure"
    /\ m_current = 0

\* the strategies [(condFail, actA), (condSuccess, actRunning),
\* (condSuccess, actB)], the actions returning Running and then Success
ExampleDecision ==
    DecisionNode(Strategies(<<"Failure", "Success", "Success">>,
                            <<"Running", "Success">>))

\* C19: with no strategy latched, a Decision tick ticks the conditions in
\* declaration order up to the first that returns Success, ticks that
\* strategy's action, returns its outcome, latches the strategy iff the
\* outcome is Running and ticks nothing later; on the example strategies the
\* first tick returns Running and latches strategy 2, and the next returns
\* Success and clears the latch, ticking the action of strategy 2 only.
C19_Unlatched ==
    [][/\ (/\ UnlatchedTick
           /\ ScanStop <= Len(m_root.m_strategies)
           /\ CondOut(ScanStop) = "Success")
          => /\ log' = Append(CondIdsUpTo(ScanStop), ActOf(ScanStop).id)
             /\ result' = ActOut(ScanStop)
             /\ m_current' =
                  IF ActOut(ScanStop) = "Running" THEN ScanStop ELSE 0
       /\ (/\ UnlatchedTick
           /\ m_root = ExampleDecision
           /\ pos[4] = 0)
          => /\ result' = "Running"
             /\ m_current' = 2
             /\ log' = <<1, 3, 4>>
       /\ (/\ op' = "tick"
           /\ m_root = ExampleDecision
           /\ m_current = 2
           /\ pos[4] = 1)
          => /\ result' = "Success"
             /\ m_current' = 0
             /\ log' = <<4>>]_vars

C19_Witness ==
    /\ op = "tick"
    /\ steps = 1
    /\ m_root = ExampleDecision
    /\ result = "Running"
    /\ m_current = 2
    /\ log = <<1, 3, 4>>

\* C20: in an unlatched scan a condition that returns Running or Invalid
\* ends the scan: the Decision returns that outcome, ticks no action and no
\* later condition and latches nothing; a condition that returns Failure
\* only moves the scan on, its action not ticked.
C20_BrokenCondition ==
    [][(/\ UnlatchedTick
        /\ \/ ScanStop > Len(m_root.m_strategies)
           \/ CondOut(ScanStop) \in {"Running", "Invalid"})
       => /\ log' = CondIdsUpTo(Min(ScanStop, Len(m_root.m_strategies)))
          /\ m_current' = 0
          /\ ScanStop <= Len(m_root.m_strategies)
               => result' = CondOut(ScanStop)]_vars

C20_Witness ==
    /\ op = "tick"
    /\ m_root.kind = "DecisionNode"
    /\ Len(m_root.m_strategies) = 3
    /\ CondOf(1).script = <<"Failure">>
    /\ CondOf(2).script = <<"Running">>
    /\ CondOf(3).script = <<"Success">>
    /\ result = "Running"
    /\ log = <<1, 3>>
    /\ m_current = 0

\* C21: an unlatched Decision whose every condition returns Failure, also
\* one with no strategies, returns Invalid, ticks no action and stays
\* unlatched.
C21_NoStrategyHolds ==
    [][(/\ UnlatchedTick
        /\ ScanStop > Len(m_root.m_strategies))
       => /\ result' = "Invalid"
          /\ log' = CondIdsUpTo(Len(m_root.m_strategies))
          /\ m_current' = 0]_vars

C21_Witness ==
    /\ op = "tick"
    /\ steps = 1
    /\ m_root.kind = "DecisionNode"
    /\ Len(m_root.m_strategies) = 3
    /\ \A i \in 1..3 : CondOf(i).script = <<"Failure">>
    /\ log = <<1, 3, 5>>
    /\ result = "Invalid"
    /\ m_current = 0

\* the kinds the compiler has a constructor for
KnownKinds == FactoryNames \cup {"Decision"}

\* the descriptor wraps no callable and its kind has no constructor
Unbuildable(node) ==
    /\ node.m_leaf = NoCallable
    /\ node.m_decorator = NoCallable
    /\ node.m_name \notin KnownKinds

UnbuildableBuilders == {b.builder : b \in {u \in RefBuilds : Unbuildable(u.node)}}

RECURSIVE Callables(_)
Callables(node) ==
    CASE node.kind = "LeafNode" -> {node.m_tick}
      [] node.kind \in {"SequenceNode", "SelectorNode",
                        "RepeatWhileSuccessfulNode",
                        "RepeatWhileFailureNode"} ->
             UNION {Callables(node.m_children[i]) :
                      i \in 1..Len(node.m_children)}
      [] node.kind \in {"TrueDecoratorNode", "FalseDecoratorNode",
                        "NegateDecoratorNode", "RepeatDecoratorNode"} ->
             Callables(node.m_child)
      [] node.kind = "DecisionNode" ->
             UNION {Callables(node.m_strategies[i].m_condition)
                      \cup Callables(node.m_strategies[i].m_action) :
                      i \in 1..Len(node.m_strategies)}
      [] OTHER -> {}

\* the last tick invoked a callable that returns Invalid
InvalidReturned ==
    \E c \in Callables(m_root) :
        /\ c.script = <<"Invalid">>
        /\ \E k \in 1..Len(log) : log[k] = c.id

\* C23: in a tree of Sequence, Selector, repeat-while, Return-True,
\* Return-False, Negate, Repeat and Decision nodes, a tick in which some
\* child tick returned Invalid returns Invalid.
C23_InvalidKept ==
    (op = "tick" /\ InvalidReturned) => result = "Invalid"

C23_Witness ==
    /\ op = "tick"
    /\ m_root =
         SelectorNode(<<LeafAt(1, "Failure"),
                        SequenceNode(<<LeafAt(3, "Success"),
                                       LeafAt(4, "Invalid")>>)>>)
    /\ log = <<1, 3, 4>>
    /\ result = "Invalid"


----------------------------------------------------------------------------
(* Bytecode VM claims *)

\* the cell of the program at the address a, or -1 outside the program
ProgramCell(a) ==
    IF InVector(m_program.m_program, a) THEN At(m_program.m_program, a)
    ELSE -1

\* the thread the host stepped last
SteppedThread == m_threads[stepped + 1]

\* the host steps again the thread it stepped last
StepsAgain == op = "step" /\ op' = "step" /\ stepped' = stepped

\* the last step of the host ran a run instruction of the stepped thread, at
\* the two cells before its m_pc, and the leaf returned the outcome
RanLeafBefore(outcome) ==
    /\ ProgramCell(SteppedThread.m_pc - 2) = ops_run
    /\ InVector(m_program.m_leaves, ProgramCell(SteppedThread.m_pc - 1))
    /\ LET leaf == At(m_program.m_leaves, ProgramCell(SteppedThread.m_pc - 1))
       IN  /\ log = <<leaf.id>>
           /\ Outcome(leaf, 0) = outcome
    /\ SteppedThread.m_current = outcome

\* C24: when a step ran run(leaf a) and the leaf returned Failure, and the
\* next instruction is branch-if-failure(off), stepping the thread a second
\* time leaves m_pc at the address of the branch instruction plus off; the
\* same for branch-if-success after a leaf that returned Success.
C24_BranchTaken ==
    [][(/\ StepsAgain
        /\ \/ /\ RanLeafBefore("Failure")
              /\ ProgramCell(SteppedThread.m_pc) = ops_bra_f
           \/ /\ RanLeafBefore("Success")
              /\ ProgramCell(SteppedThread.m_pc) = ops_bra_t)
       => m_threads'[stepped + 1].m_pc =
              SteppedThread.m_pc + ProgramCell(SteppedThread.m_pc + 1)]_vars


\* Failure and Success exchanged, every other status kept
Negated(status) ==
    IF status = "Failure" THEN "Success"
    ELSE IF status = "Success" THEN "Failure"
    ELSE status

\* the step of the host returned to it
StepReturns == op' = "step" /\ ~Abrupt(result')

\* the thread of the step being taken, before and after it
Before == m_threads[stepped' + 1]

After == m_threads'[stepped' + 1]

\* C25: a step executes the instruction at m_pc of the stepped thread:
\* m_current keeps the outcome of the earlier steps, which is what a branch
\* tests and what negate-current exchanges, and m_pc moves by 2 for run,
\* run-decorator (callable settled on Success or Failure), run-thread
\* (outcome not Invalid), check-fact, remove-fact and an untaken branch, by
\* 1 for set-failure, set-success and negate-current, and by the signed
\* offset for a taken branch.
C25_StepMoves ==
    [][StepReturns =>
       LET opcode == ProgramCell(Before.m_pc)
       IN  /\ (/\ opcode \in {ops_run, ops_run_dec}
               /\ After.m_current \in {"Success", "Failure"})
              => After.m_pc = Before.m_pc + 2
           /\ (opcode = ops_run_thr /\ After.m_current # "Invalid")
              => After.m_pc = Before.m_pc + 2
           /\ (/\ opcode \in {ops_chk_fact, ops_rm_fact}
               /\ InVector(m_program.m_stringTable, Before.m_pc + 1))
              => After.m_pc = Before.m_pc + 2
           /\ opcode = ops_set_f
              => After = [Before EXCEPT !.m_pc = @ + 1,
                                        !.m_current = "Failure"]
           /\ opcode = ops_set_t
              => After = [Before EXCEPT !.m_pc = @ + 1,
                                        !.m_current = "Success"]
           /\ opcode = ops_neg
              => After = [Before EXCEPT !.m_pc = @ + 1,
                                        !.m_current = Negated(@)]
           /\ opcode = ops_bra_f
              => After = [Before EXCEPT !.m_pc =
                            IF Before.m_current = "Failure"
                            THEN @ + ProgramCell(@ + 1) ELSE @ + 2]
           /\ opcode = ops_bra_t
              => After = [Before EXCEPT !.m_pc =
                            IF Before.m_current = "Success"
                            THEN @ + ProgramCell(@ + 1) ELSE @ + 2]]_vars


\* C26: when the callable invoked by a run or run-decorator instruction
\* returns Running, the step leaves m_pc at that instruction, which is
\* therefore the one a next step of the thread executes.
C26_RunningKeepsPc ==
    [][(/\ StepReturns
        /\ ProgramCell(Before.m_pc) \in {ops_run, ops_run_dec}
        /\ log' # <<>>
        /\ After.m_current = "Running")
       => After.m_pc = Before.m_pc]_vars


\* the opcodes eval has a case for
Recognized ==
    {ops_run, ops_run_thr, ops_run_dec, ops_bra_f, ops_bra_t, ops_set_f,
     ops_set_t, ops_neg, ops_chk_fact, ops_rm_fact}

\* m_pc of the thread addresses a cell of the program that holds no
\* recognized opcode
Halted(thread) ==
    /\ InVector(m_program.m_program, thread.m_pc)
    /\ ProgramCell(thread.m_pc) \notin Recognized

\* C27: every step of a thread whose m_pc addresses an unrecognized opcode,
\* the reserved debug-break and log opcodes included, returns Invalid, sets
\* m_current of the thread to Invalid, invokes nothing and leaves m_pc, the
\* other threads and the fact store unchanged; as m_pc stays there, so does
\* every further step, and only a reset moves the thread off that cell.
C27_UnknownOpcodeHalts ==
    [][/\ (op' = "step" /\ Halted(Before))
          => /\ result' = "Invalid"
             /\ m_threads' =
                  [m_threads EXCEPT ![stepped' + 1].m_current = "Invalid"]
             /\ blackboard' = blackboard
             /\ log' = <<>>
             /\ pos' = pos
       /\ \A t \in DOMAIN m_threads :
            (Halted(m_threads[t]) /\ m_threads'[t].m_pc # m_threads[t].m_pc)
            => op' = "reset" /\ stepped' = t - 1]_vars

C27_Witness ==
    /\ op = "step"
    /\ steps = 3
    /\ stepped = 0
    /\ SteppedThread = BehaviorTreeVMThread(1, 0, "Invalid")
    /\ ProgramCell(0) = ops_set_f
    /\ ProgramCell(1) = ops_dbg_break
    /\ result = "Invalid"
    /\ DOMAIN blackboard = {<<"x">>}


\* the VM as a step finds it
VMState ==
    [m_threads |-> m_threads, blackboard |-> blackboard, pos |-> pos,
     log |-> <<>>]

\* the thread t after a step of its own in the current state, and the rest
\* of the VM with it, for the outcome ub of an access outside a vector
OwnStep(t, ub) == step(m_program, VMState, t, ub)

\* C28: a step of a thread at run-thread with operand t, another thread,
\* that returns to the host has stepped thread t by one of its own
\* instructions (m_pc of t, the fact store and the callables invoked are
\* those of a step of t), has copied the resulting m_current of t into the
\* caller's m_current, and has advanced the caller's m_pc by 2, unless the
\* copied outcome is Invalid: then the caller's m_pc is unchanged and the
\* step returns Invalid.
C28_RunThread ==
    [][(/\ StepReturns
        /\ ProgramCell(Before.m_pc) = ops_run_thr
        /\ InVector(m_threads, ProgramCell(Before.m_pc + 1))
        /\ ProgramCell(Before.m_pc + 1) # stepped')
       => LET t == ProgramCell(Before.m_pc + 1)
          IN  /\ \E ub \in VMUBOutcomes :
                   /\ m_threads'[t + 1] = OwnStep(t, ub).st.m_threads[t + 1]
                   /\ blackboard' = OwnStep(t, ub).st.blackboard
                   /\ pos' = OwnStep(t, ub).st.pos
                   /\ log' = OwnStep(t, ub).st.log
              /\ After.m_current = m_threads'[t + 1].m_current
              /\ After.m_threadStart = Before.m_threadStart
              /\ IF After.m_current = "Invalid"
                 THEN After.m_pc = Before.m_pc /\ result' = "Invalid"
                 ELSE After.m_pc = Before.m_pc + 2]_vars

C28_Witness ==
    /\ op = "step"
    /\ steps = 2
    /\ stepped = 0
    /\ ProgramCell(0) = ops_run_thr /\ ProgramCell(1) = 1
    /\ ProgramCell(2) = ops_run_thr /\ ProgramCell(3) = 1
    /\ ProgramCell(6) = ops_set_t
    /\ m_threads = <<BehaviorTreeVMThread(4, 0, "Failure"),
                     BehaviorTreeVMThread(8, 6, "Failure")>>
    /\ result = "Running"


\* the string-table entry named by the operand cell of the instruction at
\* m_pc of the thread
OperandString(thread) ==
    At(m_program.m_stringTable, ProgramCell(thread.m_pc + 1))

\* C29: a check-fact or remove-fact instruction operates on the entry of the
\* string table whose index is the operand cell m_program[m_pc + 1]:
\* check-fact sets m_current to Success if the fact store has that fact and
\* to Failure otherwise, remove-fact removes that fact and sets m_current to
\* Success, and both advance m_pc by 2.
C29_FactOperand ==
    [][(/\ StepReturns
        /\ ProgramCell(Before.m_pc) \in {ops_chk_fact, ops_rm_fact}
        /\ InVector(m_program.m_stringTable, ProgramCell(Before.m_pc + 1)))
       => /\ After.m_pc = Before.m_pc + 2
          /\ ProgramCell(Before.m_pc) = ops_chk_fact
             => /\ After.m_current =
                     IF hasFact(blackboard, OperandString(Before))
                     THEN "Success" ELSE "Failure"
                /\ blackboard' = blackboard
          /\ ProgramCell(Before.m_pc) = ops_rm_fact
             => /\ After.m_current = "Success"
                /\ blackboard' =
                     BTVM_removeFact(blackboard, OperandString(Before))]_vars


\* C30: a step at a run-decorator instruction with operand k, an index of
\* the decorator table, invokes entry k of m_decoratorNodes and no other
\* callable, and stores its outcome in m_current of the thread.
C30_RunDecorator ==
    [][(/\ StepReturns
        /\ ProgramCell(Before.m_pc) = ops_run_dec
        /\ InVector(m_program.m_decoratorNodes, ProgramCell(Before.m_pc + 1)))
       => LET decorator == At(m_program.m_decoratorNodes,
                              ProgramCell(Before.m_pc + 1))
          IN  /\ log' = <<decorator.id>>
              /\ After.m_current = Outcome(decorator, pos[decorator.id])]_vars


----------------------------------------------------------------------------
(* Claims on construction, utility selection, statelessness and termination *)

\* C31: the first tick of a freshly constructed Decision node takes the
\* scanning path: it returns to the host, with strategies it ticks the
\* condition of the first strategy first, and every action it ticks comes
\* right after the condition of the same strategy, which returned Success.
C31_FreshScans ==
    [][(/\ op = "Tree"
        /\ op' = "tick"
        /\ m_root.kind = "DecisionNode")
       => /\ result' # "Crash"
          /\ Len(m_root.m_strategies) > 0 => /\ log' # <<>>
                                             /\ log'[1] = CondOf(1).id
          /\ \A k \in DOMAIN log' :
               \A i \in DOMAIN m_root.m_strategies :
                  log'[k] = ActOf(i).id
                  => /\ k > 1
                     /\ log'[k - 1] = CondOf(i).id
                     /\ CondOut(i) = "Success"]_vars


\* the score of the qualifier of the pair k of the Selector
ScoreOf(k) == Qualifier_score(qualifiers[k].first)

\* the pairs whose score is above the threshold of the default action and
\* below the score of no other pair
Winners ==
    {k \in DOMAIN qualifiers :
        /\ Greater(ScoreOf(k), defaultAction.first.threshold)
        /\ \A j \in DOMAIN qualifiers : ~Greater(ScoreOf(j), ScoreOf(k))}

\* C32: Selector::eval invokes exactly one action: that of the earliest
\* pair whose score is maximal among all pairs and strictly above the
\* threshold 0 of the default action, and the default action when no pair
\* scores strictly above it.
C32_SelectorEval ==
    op = "eval"
    => /\ defaultAction.first.threshold = Float(0)
       /\ Len(log) = 1
       /\ IF Winners = {} THEN log[1] = defaultAction.second
          ELSE \E k \in Winners :
                  /\ \A j \in Winners : k <= j
                  /\ log[1] = qualifiers[k].second

C32_Witness ==
    /\ op = "eval"
    /\ Len(qualifiers) = 3
    /\ ScoreOf(1) = Float(1)
    /\ qualifiers[2].first.type = "AllOrNothing" /\ ScoreOf(2) = Float(2)
    /\ qualifiers[3].first.type = "SumWhileAboveThreshold"
    /\ ScoreOf(3) = Float(2)
    /\ log = <<2>>


\* the composites that keep no member besides their children
StatelessKinds ==
    {"SequenceNode", "SelectorNode", "RepeatWhileSuccessfulNode",
     "RepeatWhileFailureNode"}

\* the callable a tick of the node invokes first, every child being present
RECURSIVE FirstCallable(_)
FirstCallable(node) ==
    CASE node.kind = "LeafNode" -> node.m_tick.id
      [] node.kind \in StatelessKinds -> FirstCallable(node.m_children[1])
      [] node.kind = "DecisionNode" ->
             FirstCallable(node.m_strategies[1].m_condition)
      [] OTHER -> FirstCallable(node.m_child)

\* C33: Sequence, Selector and the repeat-while composites keep no state
\* between ticks: the tick after one that returned Running starts again at
\* the first callable of child 0 and, the callables returning what they
\* returned before, invokes the same callables in the same order, those of
\* the children before the Running one included, and returns Running again.
\* A Decision node whose action returned Running is the exception: its next
\* tick invokes callables of that action only, and no condition.
C33_NoResume ==
    [][(/\ op = "tick"
        /\ op' = "tick"
        /\ result = "Running"
        /\ ~Abrupt(result'))
       => /\ m_root.kind \in StatelessKinds
             => /\ log' = log
                /\ log'[1] = FirstCallable(m_root.m_children[1])
                /\ result' = "Running"
          /\ (/\ m_root.kind = "DecisionNode"
              /\ m_current \in 1..Len(m_root.m_strategies))
             => /\ log' # <<>>
                /\ \A k \in DOMAIN log' :
                     \E c \in Callables(m_root.m_strategies[m_current]
                                              .m_action) :
                        log'[k] = c.id]_vars

C33_Witness ==
    /\ op = "tick"
    /\ steps = 2
    /\ m_root =
         SequenceNode(<<LeafAt(1, "Success"),
                        SequenceNode(<<LeafAt(3, "Success"),
                                       LeafAt(4, "Running")>>)>>)
    /\ log = <<1, 3, 4>>
    /\ result = "Running"


\* the token with its leading '@' markers stripped
RECURSIVE StripAt(_)
StripAt(token) ==
    IF token # <<>> /\ Head(token) = "@" THEN StripAt(Tail(token)) ELSE token

\* no value of the top scope frame begins with '#' once its leading '@'
\* markers are stripped
TopFrameSafe ==
    \/ m_scopeStack = <<>>
    \/ LET top == m_scopeStack[Len(m_scopeStack)]
       IN  \A v \in DOMAIN top :
              StripAt(top[v]) = <<>> \/ Head(StripAt(top[v])) # "#"

\* the fact f names itself: its value is f, "@f" or "#f"
SelfReferential(f) ==
    /\ f \in DOMAIN m_dict
    /\ m_dict[f] \in {f, <<"@">> \o f, <<"#">> \o f}

\* C34: with no value of the top scope frame beginning with '#' behind its
\* '@' markers, getFactRef returns for every token, so a tick of a fact node
\* returns to the host; and whatever the scope stack, "@f" for a fact f
\* whose value is f, "@f" or "#f" resolves, in one lookup, to that value,
\* which is not resolved again.
C34_ResolutionTerminates ==
    /\ TopFrameSafe
       => /\ \A t \in Tokens : ~getFactRef(t, m_dict, m_scopeStack).diverged
          /\ op = "tick" => result # "Crash"
    /\ \A f \in FactNames :
         SelfReferential(f)
         => getFactRef(<<"@">> \o f, m_dict, m_scopeStack) =
              [ok |-> TRUE, result |-> m_dict[f], diverged |-> FALSE]

C34_Witness ==
    /\ op = "tick"
    /\ m_root = FactEqualsConstantNode(<<"@", "x">>, <<"z">>)
    /\ DOMAIN m_dict = {<<"x">>}
    /\ m_dict[<<"x">>] = <<"@", "x">>
    /\ m_scopeStack = <<[v \in {<<"x">>} |-> <<"@", "x">>]>>
    /\ result = "Invalid"

\* a scope value that leads back to its own variable does make resolution
\* run without end, so the condition on the top frame is needed
C34_Unsafe ==
    /\ op = "tick"
    /\ ~TopFrameSafe
    /\ result = "Crash"


\* the instruction at m_pc of the thread has a recognized opcode, and a
\* run or run-decorator names a callable of the leaf table, a run-thread a
\* thread of the VM
WellFormedAt(thread) ==
    /\ ProgramCell(thread.m_pc) \in Recognized
    /\ ProgramCell(thread.m_pc) \in {ops_run, ops_run_dec}
       => InVector(m_program.m_leaves, ProgramCell(thread.m_pc + 1))
    /\ ProgramCell(thread.m_pc) = ops_run_thr
       => InVector(m_threads, ProgramCell(thread.m_pc + 1))

\* C35: the value a step at a recognized opcode returns to the host is never
\* Success or Failure: it is Running, except that a run or run-decorator
\* step returns the outcome of the callable when that is Invalid or
\* Suspended, and a run-thread step returns Invalid when m_current of the
\* thread it stepped is Invalid; Success and Failure show in m_current only.
C35_StepValue ==
    [][(StepReturns /\ WellFormedAt(Before))
       => LET opcode == ProgramCell(Before.m_pc)
          IN  /\ result' \notin {"Success", "Failure"}
              /\ opcode \in {ops_run, ops_run_dec}
                 => /\ log' # <<>>
                    /\ result' =
                         IF After.m_current \in {"Invalid", "Suspended"}
                         THEN After.m_current ELSE "Running"
              /\ opcode = ops_run_thr
                 => /\ After.m_current =
                         m_threads'[ProgramCell(Before.m_pc + 1) + 1]
                             .m_current
                    /\ result' = IF After.m_current = "Invalid"
                                 THEN "Invalid" ELSE "Running"
              /\ opcode \notin {ops_run, ops_run_dec, ops_run_thr}
                 => result' = "Running"]_vars

C35_Witness ==
    /\ op = "step"
    /\ steps = 3
    /\ stepped = 0
    /\ ProgramCell(0) = ops_set_f
    /\ ProgramCell(1) = ops_run /\ ProgramCell(2) = 0
    /\ m_program.m_leaves[1].script = <<"Suspended">>
    /\ SteppedThread = BehaviorTreeVMThread(1, 0, "Suspended")
    /\ log = <<1>>
    /\ result = "Suspended"

====
